---- MODULE Spec2Model ----
(***************************************************************************)
(* The asynchronous task pipeline of the scheduler service:               *)
(*   processor/task.ts      TaskManager.CreateTask / GetTask              *)
(*   processor/processor.ts StartProcessor / processPendingTasks /        *)
(*                          fetchPendingDocs, the Piscina pool            *)
(*   processor/worker.ts    process                                       *)
(* over the MongoDB task collection (unique index on taskId, TTL index on *)
(* updatedAt).  Every await of the code is a step boundary: other         *)
(* callbacks of the event loop and the worker threads run in between.     *)
(* And the directions service with its cache:                             *)
(*   scheduler/cache.ts     CreateCache, LRUCache, MongoCache             *)
(*   scheduler/direction.ts GetDirection, getDirectionFromGoogle          *)
(* And the scheduler:                                                     *)
(*   utils/scheduler.ts     Scheduler.DoSchedule, TripInfo, VehicleInfo   *)
(***************************************************************************)
EXTENDS Integers, Sequences, FiniteSets, TLC

(***************************************************************************)
(* Bounds of the model.                                                    *)
(***************************************************************************)
\* documents ever inserted into the task collection
MaxDocs == 2
\* setInterval callbacks that may be in flight at the same time
MaxTicks == 2
\* the clock runs over 0..MaxTime
MaxTime == 1
\* largest number of threads the pool starts with on the host
MaxHostThreads == 2

(***************************************************************************)
(* Configuration (read from the environment).                              *)
(***************************************************************************)
PROCESSOR_BATCH_SIZE == 2
PROCESSOR_THREAD_NUMBER == 1
TASK_TTL == 1

DocIds == 1..MaxDocs
Ticks == 1..MaxTicks
TaskIds == {"t1", "t2"}

(***************************************************************************)
(* JavaScript values.  Every value is a record with a kind k and a payload *)
(* p, so that a JSON text, the object it encodes, undefined and null are   *)
(* different values.                                                       *)
(***************************************************************************)
Undefined == [k |-> "undefined", p |-> ""]
Null == [k |-> "null", p |-> ""]
Obj(p) == [k |-> "object", p |-> p]
Json(p) == [k |-> "json", p |-> p]
Str(p) == [k |-> "string", p |-> p]
\* an unsettled Promise object: it has none of a document's properties
PromiseObj == [k |-> "promise"]

\* JS truthiness of a value
Truthy(v) == ~(v \in {Undefined, Null, Str("")})

\* property access obj.f on a JS object (undefined when there is no such property)
Field(obj, f) == IF f \in DOMAIN obj THEN obj[f] ELSE Undefined

\* JSON.stringify: the JSON text of a plain object; undefined for undefined
JSONstringify(v) == IF v.k = "object" THEN Json(v.p) ELSE Undefined

SyntaxErrorMessage == Str("SyntaxError: not valid JSON")

\* JSON.parse: its argument is coerced to a string and parsed; anything that
\* is not a JSON text (undefined becomes "undefined") throws a SyntaxError
JSONparse(s) ==
  IF s.k = "json" THEN [ok |-> TRUE, value |-> Obj(s.p), message |-> Str("")]
  ELSE [ok |-> FALSE, value |-> Undefined, message |-> SyntaxErrorMessage]

(***************************************************************************)
(* Requests and the scheduler.  A request is schedulable or not; the       *)
(* scheduler returns the response envelope of the plan or throws.          *)
(***************************************************************************)
Requests == {Obj("rqOk"), Obj("rqNoRoute")}

NoRouteMessage == Str("No routes found for the given query")

\* new Scheduler(config, request).Calculate()
Calculate(request) ==
  IF request = Obj("rqOk")
  THEN [ok |-> TRUE, value |-> Obj("planOf_rqOk"), message |-> Str("")]
  ELSE [ok |-> FALSE, value |-> Undefined, message |-> NoRouteMessage]

(***************************************************************************)
(* Task documents.                                                         *)
(***************************************************************************)
pending == "PENDING"
processing == "PROCESSING"
completed == "COMPLETED"
failed == "FAILED"
TaskStatus == {pending, processing, completed, failed}

\* new Date().getTime(): a number
NumberTime(t) == [k |-> "number", t |-> t]
\* new Date(): a BSON date
DateTime(t) == [k |-> "date", t |-> t]

NoDoc == [k |-> "absent"]

VARIABLES
  store,      \* the task collection: _id -> document, or NoDoc
  nextId,     \* number of documents inserted so far (the _id generator)
  now,        \* the clock
  ret,        \* the response of the HTTP handler, when the last step was one
  tick,       \* the setInterval callbacks: where each is, and its ids
  jobs,       \* the piscina.run tasks of each callback, per document
  threads,    \* worker threads of the pool
  handed,     \* per document: how many times it was handed to the pool
  config,     \* direction.ts: the configuration given to Init
  cacheCreated, \* direction.ts: whether getCache has created the cache
  cache,      \* direction.ts: the cache object, or null
  mongo,      \* the collection of the persistent cache (unique index on key)
  calls,      \* the invocations of GetDirection: where each is
  order,      \* the keys put into the LRU cache since it was created, while
              \* they were distinct and nothing was read
  schedRequest, \* scheduler.ts: the request of the Scheduler
  allTrips,   \* the trips of DoSchedule
  priorityTrips, \* the three priority queues
  queue,      \* the trips the loops of DoSchedule have still to schedule
  plan,       \* the vehicles of the plan
  runs,       \* the finished runs of DoSchedule: response, plan and trips
  schedPc,    \* where DoSchedule is
  parked,     \* a second DoSchedule, at an await while the first one runs
  called      \* the requests DoSchedule was called with: the one that
              \* runs, and the one at an await

\* the state of the task pipeline but for the clock and the response
taskVars == <<store, nextId, tick, jobs, threads, handed>>
\* the state of the directions service and its cache
dirVars == <<config, cacheCreated, cache, mongo, calls, order>>

\* the state of the scheduler
schedVars == <<schedRequest, allTrips, priorityTrips, queue, plan, runs, schedPc,
               parked, called>>

vars == <<store, nextId, now, ret, tick, jobs, threads, handed, dirVars, schedVars>>

Stored(d) == store[d] # NoDoc

\* collection.findOne({ taskId: taskId }), awaited: the document or null
findOneByTaskId(coll, taskId) ==
  IF \E d \in DOMAIN coll : coll[d] # NoDoc /\ coll[d].taskId = taskId
  THEN coll[CHOOSE d \in DOMAIN coll : coll[d] # NoDoc /\ coll[d].taskId = taskId]
  ELSE Null

NoRet == [op |-> "none"]

(***************************************************************************)
(* TaskManager.CreateTask.  It ensures the two indexes before it inserts,  *)
(* so every insert is under the unique index on taskId; v4() is any id.    *)
(***************************************************************************)
\* NewTask with updatedAt written as a date, createdAt kept a number
NewTask_DateUpdatedAt(taskId, request, t) ==
  [ taskId |-> taskId,
    requestBody |-> JSONstringify(request),
    status |-> pending,
    createdAt |-> NumberTime(t),
    updatedAt |-> DateTime(t),
    errorMessage |-> Undefined,
    responseBody |-> Undefined ]

\* the document CreateTask inserts
NewTask(taskId, request, t) ==
  [ taskId |-> taskId,
    requestBody |-> JSONstringify(request),
    status |-> pending,
    createdAt |-> NumberTime(t),
    updatedAt |-> NumberTime(t),
    errorMessage |-> Undefined,
    responseBody |-> Undefined ]

\* up: the store answers; when it does not, getCollection (client.connect)
\* or insertOne rejects and CreateTask rejects with that error.  insertOne
\* under the unique index on taskId: a duplicate key is rejected.
\* ret.value is what CreateTask returned: the task id, or nothing
CreateTask(request, taskId, up) ==
  /\ nextId < MaxDocs
  /\ IF ~up \/ findOneByTaskId(store, taskId) # Null
     THEN /\ ret' = [op |-> "CreateTask", request |-> request, ok |-> FALSE,
                     taskId |-> taskId, value |-> Undefined]
          /\ UNCHANGED <<store, nextId>>
     ELSE /\ store' = [store EXCEPT ![nextId + 1] = NewTask(taskId, request, now)]
          /\ nextId' = nextId + 1
          /\ ret' = [op |-> "CreateTask", request |-> request, ok |-> TRUE,
                     taskId |-> taskId, value |-> Str(taskId)]
  /\ UNCHANGED <<now, tick, jobs, threads, handed, dirVars, schedVars>>

(***************************************************************************)
(* TaskManager.GetTask: the task response of the document with the taskId, *)
(* or null.  A body is read when it is truthy.                             *)
(***************************************************************************)
\* GetTask handing out the stored responseBody text unparsed
GetTask_RawBody(coll, taskId) ==
  LET doc == findOneByTaskId(coll, taskId) IN
  IF doc # Null
  THEN [ taskId |-> taskId,
         status |-> doc.status,
         result |-> IF Truthy(doc.responseBody) THEN doc.responseBody ELSE Undefined,
         error |-> IF Truthy(doc.errorMessage) THEN doc.errorMessage ELSE Undefined ]
  ELSE Null

GetTask(coll, taskId) ==
  LET doc == findOneByTaskId(coll, taskId) IN
  IF doc # Null
  THEN [ taskId |-> taskId,
         status |-> doc.status,
         result |-> IF Truthy(doc.responseBody)
                    THEN JSONparse(doc.responseBody).value ELSE Undefined,
         error |-> IF Truthy(doc.errorMessage) THEN doc.errorMessage ELSE Undefined ]
  ELSE Null

\* the handler of GET /v1_webapp_auto_scheduling/:taskId
GetTaskCall(taskId) ==
  /\ ret' = [op |-> "GetTask", taskId |-> taskId, value |-> GetTask(store, taskId)]
  /\ UNCHANGED <<store, nextId, now, tick, jobs, threads, handed, dirVars, schedVars>>

(***************************************************************************)
(* The clock, and MongoDB's TTL monitor on the index { updatedAt: 1 }:     *)
(* it removes a document whose updatedAt is a date older than the TTL.  A  *)
(* document whose updatedAt is not a date never expires.                   *)
(***************************************************************************)
Advance ==
  /\ now < MaxTime
  /\ now' = now + 1
  /\ ret' = NoRet
  /\ UNCHANGED <<store, nextId, tick, jobs, threads, handed, dirVars, schedVars>>

Expired(doc, t) == doc.updatedAt.k = "date" /\ doc.updatedAt.t + TASK_TTL <= t

TTLMonitor(d) ==
  /\ Stored(d)
  /\ Expired(store[d], now)
  /\ store' = [store EXCEPT ![d] = NoDoc]
  /\ ret' = NoRet
  /\ UNCHANGED <<nextId, now, tick, jobs, threads, handed, dirVars, schedVars>>

(***************************************************************************)
(* MongoDB updates.  An update document is a record of the fields to set;  *)
(* atomic tells whether it is written with an update operator ($set).  The *)
(* driver rejects an update document without operators before sending it.  *)
(***************************************************************************)
AtomicOperatorsMessage == Str("Update document requires atomic operators")

ApplySet(doc, fields) ==
  [f \in DOMAIN doc |-> IF f \in DOMAIN fields THEN fields[f] ELSE doc[f]]

\* collection.updateMany({ _id: { $in: ids } }, { $set: fields })
updateMany(coll, ids, fields) ==
  [d \in DOMAIN coll |->
     IF d \in ids /\ coll[d] # NoDoc THEN ApplySet(coll[d], fields) ELSE coll[d]]

\* collection.updateOne({ _id: oid }, update)
updateOne(coll, oid, update) ==
  IF ~update.atomic
  THEN [ok |-> FALSE, coll |-> coll, message |-> AtomicOperatorsMessage]
  ELSE [ok |-> TRUE, coll |-> updateMany(coll, {oid}, update.fields), message |-> Str("")]

(***************************************************************************)
(* fetchPendingDocs, in its three awaits: getCollection, find, updateMany. *)
(***************************************************************************)
PendingIds(coll) == {d \in DOMAIN coll : coll[d] # NoDoc /\ coll[d].status = pending}

Min(a, b) == IF a <= b THEN a ELSE b

\* find({ status: PENDING }).limit(n).toArray(): n of the pending documents
\* (all of them when there are fewer), in no specified order
FindPending(coll, n) ==
  {S \in SUBSET PendingIds(coll) : Cardinality(S) = Min(n, Cardinality(PendingIds(coll)))}

IdleTick == [pc |-> "idle", ids |-> {}]
NoJobs == [d \in DocIds |-> "none"]

\* what the callback of setInterval is left with when processPendingTasks
\* rejects
Rejected(k, message) ==
  [op |-> "processPendingTasks", tick |-> k, ok |-> FALSE, message |-> message]

ConnectionFailedMessage == Str("Mongo connection failed")

\* StartProcessor_interval going on to find although getCollection rejected
StartProcessor_interval_Swallow(k, up) ==
  /\ tick[k].pc = "idle"
  /\ tick' = [tick EXCEPT ![k] = [pc |-> "find", ids |-> {}]]
  /\ ret' = IF up THEN NoRet ELSE Rejected(k, ConnectionFailedMessage)
  /\ UNCHANGED <<store, nextId, now, jobs, threads, handed, dirVars, schedVars>>

\* the timer of setInterval fires: the callback calls processPendingTasks,
\* which calls fetchPendingDocs, which awaits getCollection.  up: the store
\* answers; when it does not, getCollection rejects, and so do
\* fetchPendingDocs and processPendingTasks, neither of which catches
StartProcessor_interval(k, up) ==
  /\ tick[k].pc = "idle"
  /\ IF up
     THEN /\ tick' = [tick EXCEPT ![k] = [pc |-> "find", ids |-> {}]]
          /\ ret' = NoRet
     ELSE /\ tick' = tick
          /\ ret' = Rejected(k, ConnectionFailedMessage)
  /\ UNCHANGED <<store, nextId, now, jobs, threads, handed, dirVars, schedVars>>

fetchPendingDocs_find(k) ==
  /\ tick[k].pc = "find"
  /\ \E S \in FindPending(store, PROCESSOR_BATCH_SIZE) :
       tick' = [tick EXCEPT ![k] =
                  [pc |-> IF S # {} THEN "updateMany" ELSE "return", ids |-> S]]
  /\ ret' = NoRet
  /\ UNCHANGED <<store, nextId, now, jobs, threads, handed, dirVars, schedVars>>

\* the fields fetchPendingDocs sets on the documents it found
\* the claim setting createdAt too
ClaimFields_Created(t) ==
  [status |-> processing, updatedAt |-> DateTime(t), createdAt |-> DateTime(t)]

ClaimFields(t) == [status |-> processing, updatedAt |-> DateTime(t)]

fetchPendingDocs_updateMany(k) ==
  /\ tick[k].pc = "updateMany"
  /\ store' = updateMany(store, tick[k].ids, ClaimFields(now))
  /\ tick' = [tick EXCEPT ![k].pc = "return"]
  /\ ret' = NoRet
  /\ UNCHANGED <<nextId, now, jobs, threads, handed, dirVars, schedVars>>

(***************************************************************************)
(* processPendingTasks after fetchPendingDocs has returned: nothing to do  *)
(* for an empty list, else one piscina.run per id and the await of all.    *)
(***************************************************************************)
\* ids.map(docId => piscina.run(...)): the tasks a callback queues
RunAll(ids) == [d \in DocIds |-> IF d \in ids THEN "queued" ELSE "none"]

processPendingTasks_dispatch(k) ==
  /\ tick[k].pc = "return"
  /\ IF tick[k].ids = {}
     THEN /\ tick' = [tick EXCEPT ![k] = IdleTick]
          /\ UNCHANGED <<jobs, handed>>
     ELSE /\ tick' = [tick EXCEPT ![k].pc = "await"]
          /\ jobs' = [jobs EXCEPT ![k] = RunAll(tick[k].ids)]
          /\ handed' = [d \in DocIds |->
                          IF d \in tick[k].ids THEN handed[d] + 1 ELSE handed[d]]
  /\ ret' = NoRet
  /\ UNCHANGED <<store, nextId, now, threads, dirVars, schedVars>>

Settled(k) == \A d \in tick[k].ids : jobs[k][d] \in {"fulfilled", "rejected"}

\* Promise.allSettled resolves; the results are logged
processPendingTasks_settle(k) ==
  /\ tick[k].pc = "await"
  /\ Settled(k)
  /\ tick' = [tick EXCEPT ![k] = IdleTick]
  /\ jobs' = [jobs EXCEPT ![k] = NoJobs]
  /\ ret' = NoRet
  /\ UNCHANGED <<store, nextId, now, threads, handed, dirVars, schedVars>>

(***************************************************************************)
(* The Piscina pool.  It is constructed when the module is loaded, without *)
(* maxThreads or minThreads, so it starts the number of threads that is    *)
(* the default on the host.  StartProcessor then assigns                   *)
(* piscina.options.maxThreads; options is a view of the options in use,    *)
(* so the assignment stops no thread: at most it limits the threads        *)
(* started later.  A thread runs one task at a time.                       *)
(***************************************************************************)
Running == {kd \in Ticks \X DocIds : jobs[kd[1]][kd[2]] = "running"}

\* piscina.options.maxThreads after StartProcessor
PiscinaMaxThreads == PROCESSOR_THREAD_NUMBER

\* a queued task is given to an idle thread, or to a new thread while the
\* pool has fewer than maxThreads
piscina_run(k, d) ==
  /\ jobs[k][d] = "queued"
  /\ \/ /\ Cardinality(Running) < threads
        /\ UNCHANGED threads
     \/ /\ Cardinality(Running) >= threads
        /\ threads < PiscinaMaxThreads
        /\ threads' = threads + 1
  /\ jobs' = [jobs EXCEPT ![k][d] = "running"]
  /\ ret' = NoRet
  /\ UNCHANGED <<store, nextId, now, tick, handed, dirVars, schedVars>>

(***************************************************************************)
(* The worker: process(config, docId).                                     *)
(***************************************************************************)
\* collection.findOne({ _id: oid }) is not awaited: doc is the Promise
ProcessDoc(coll, docId) == PromiseObj

\* the update of the success path: no update operator
CompletedUpdate(response, t) ==
  [atomic |-> FALSE,
   fields |-> [responseBody |-> JSONstringify(response), status |-> completed,
               updatedAt |-> NumberTime(t)]]

\* the update of the catch block
FailedUpdate(message, t) ==
  [atomic |-> TRUE,
   fields |-> [status |-> failed, updatedAt |-> NumberTime(t), errorMessage |-> message]]

\* the try block: parse the request, run the scheduler, write the response;
\* calls are the operations it invoked, in the order of the code
ProcessTry(coll, docId, task, t) ==
  LET parsed == JSONparse(Field(task, "requestBody")) IN
  IF ~parsed.ok
  THEN [ok |-> FALSE, coll |-> coll, message |-> parsed.message,
        calls |-> <<"JSON.parse">>]
  ELSE LET response == Calculate(parsed.value) IN
       IF ~response.ok
       THEN [ok |-> FALSE, coll |-> coll, message |-> response.message,
             calls |-> <<"JSON.parse", "Calculate">>]
       ELSE LET upd == updateOne(coll, docId, CompletedUpdate(response.value, t)) IN
            [ok |-> upd.ok, coll |-> upd.coll, message |-> upd.message,
             calls |-> <<"JSON.parse", "Calculate", "updateOne">>]

\* process: [ok: it returned (else it threw), coll: the collection after it,
\* value: the task id it returned, message: the message of the error thrown,
\* calls: the operations it invoked after the document was looked up]
process(coll, docId, t) ==
  LET doc == ProcessDoc(coll, docId)
      task == doc
  IN
  IF ~Truthy(doc)
  THEN [ok |-> FALSE, coll |-> coll, value |-> Undefined,
        message |-> Str("cannot find doc id"), calls |-> <<>>]
  ELSE IF ~Truthy(task)
  THEN [ok |-> FALSE, coll |-> coll, value |-> Undefined,
        message |-> Str("doc is not a task"), calls |-> <<>>]
  ELSE LET try == ProcessTry(coll, docId, task, t) IN
       IF try.ok
       THEN [ok |-> TRUE, coll |-> try.coll, value |-> Field(task, "taskId"),
             message |-> Str(""), calls |-> try.calls]
       ELSE [ok |-> FALSE,
             coll |-> updateOne(coll, docId, FailedUpdate(try.message, t)).coll,
             value |-> Undefined, message |-> try.message,
             calls |-> try.calls \o <<"updateOne">>]

\* a worker thread runs process to its end; the promise of piscina.run settles
process_finish(k, d) ==
  /\ jobs[k][d] = "running"
  /\ LET out == process(store, d, now) IN
       /\ store' = out.coll
       /\ jobs' = [jobs EXCEPT ![k][d] = IF out.ok THEN "fulfilled" ELSE "rejected"]
  /\ ret' = NoRet
  /\ UNCHANGED <<nextId, now, tick, threads, handed, dirVars, schedVars>>

(***************************************************************************)
(* scheduler/cache.ts: the in-memory LRU cache.  The Map of the code is    *)
(* the sequence of its items in insertion order (the order a Map iterates  *)
(* in); an item is [key, value, expireAt], expireAt a number or null.      *)
(***************************************************************************)
\* largest capacity a cache is created with
MaxCapacity == 2
\* largest TTL a cache is created with
MaxTTL == 2
\* the clock of the cache and of the directions service runs over 0..MaxCacheTime
MaxCacheTime == 2

\* a DirectionResult
Route(meters, seconds) == [distanceInMeter |-> meters, durationInSec |-> seconds]

\* new LRUCache(capacity, ttl), capacity > 0
LRUCache(capacity, ttl) ==
  [type |-> "memory", capacity |-> capacity, TTL |-> ttl, cache |-> <<>>]

\* isExpired with a strict comparison
isExpired_Strict(item, t) == item.expireAt # Null /\ item.expireAt.t < t

isExpired(item, t) == item.expireAt # Null /\ item.expireAt.t <= t

\* Map.has(key)
Has(items, key) == \E i \in DOMAIN items : items[i].key = key

\* the place of the key in the Map
IndexOf(items, key) == CHOOSE i \in DOMAIN items : items[i].key = key

\* Map.delete of the item at place i
DeleteAt(items, i) == SubSeq(items, 1, i - 1) \o SubSeq(items, i + 1, Len(items))

\* LRUCache.get leaving the item where it is in the Map
LRUCache_get_InPlace(c, key, t) ==
  IF ~Has(c.cache, key) THEN [cache |-> c, value |-> Undefined]
  ELSE LET i == IndexOf(c.cache, key)
           item == c.cache[i]
       IN
       IF isExpired(item, t)
       THEN [cache |-> [c EXCEPT !.cache = DeleteAt(@, i)], value |-> Undefined]
       ELSE [cache |-> c, value |-> item.value]

\* LRUCache.get: [cache: the object after the call, value: what it returned]
LRUCache_get(c, key, t) ==
  IF ~Has(c.cache, key) THEN [cache |-> c, value |-> Undefined]
  ELSE LET i == IndexOf(c.cache, key)
           item == c.cache[i]
       IN
       IF isExpired(item, t)
       THEN [cache |-> [c EXCEPT !.cache = DeleteAt(@, i)], value |-> Undefined]
       ELSE [cache |-> [c EXCEPT !.cache = Append(DeleteAt(@, i), item)],
             value |-> item.value]

\* evictExpiredOrOldest removing the first item, expired items or not
evictExpiredOrOldest_Oldest(items, t) == Tail(items)

\* evictExpiredOrOldest removing the newest item when none is expired
evictExpiredOrOldest_Newest(items, t) ==
  IF \E i \in DOMAIN items : isExpired(items[i], t)
  THEN DeleteAt(items, CHOOSE i \in DOMAIN items :
                         /\ isExpired(items[i], t)
                         /\ \A j \in 1..(i - 1) : ~isExpired(items[j], t))
  ELSE SubSeq(items, 1, Len(items) - 1)

\* evictExpiredOrOldest: the first expired item in Map order, else the first item
evictExpiredOrOldest(items, t) ==
  IF \E i \in DOMAIN items : isExpired(items[i], t)
  THEN DeleteAt(items, CHOOSE i \in DOMAIN items :
                         /\ isExpired(items[i], t)
                         /\ \A j \in 1..(i - 1) : ~isExpired(items[j], t))
  ELSE Tail(items)

\* the expireAt put computes: Date.now() + TTL, or null for a null TTL
ExpireAt(ttl, t) == IF ttl # Null THEN NumberTime(t + ttl.t) ELSE Null

\* LRUCache.put setting the key without deleting it first and evicting
\* only when the key is new
LRUCache_put_KeepOld(c, key, value, t) ==
  LET kept == IF ~Has(c.cache, key) /\ Len(c.cache) >= c.capacity
              THEN evictExpiredOrOldest(c.cache, t)
              ELSE c.cache
  IN [c EXCEPT !.cache =
        Append(kept, [key |-> key, value |-> value, expireAt |-> ExpireAt(c.TTL, t)])]

\* LRUCache.put evicting whenever the cache is full, the key present or not
LRUCache_put_EvictFirst(c, key, value, t) ==
  LET room == IF Len(c.cache) >= c.capacity
              THEN evictExpiredOrOldest(c.cache, t) ELSE c.cache
      kept == IF Has(room, key) THEN DeleteAt(room, IndexOf(room, key)) ELSE room
  IN [c EXCEPT !.cache =
        Append(kept, [key |-> key, value |-> value, expireAt |-> ExpireAt(c.TTL, t)])]

\* LRUCache.put: the object after the call
LRUCache_put(c, key, value, t) ==
  LET kept == IF Has(c.cache, key) THEN DeleteAt(c.cache, IndexOf(c.cache, key))
              ELSE IF Len(c.cache) >= c.capacity
                   THEN evictExpiredOrOldest(c.cache, t)
                   ELSE c.cache
  IN [c EXCEPT !.cache =
        Append(kept, [key |-> key, value |-> value, expireAt |-> ExpireAt(c.TTL, t)])]

\* LRUCache.cleanExpired: the Map without its expired items
cleanExpired(items, t) == SelectSeq(items, LAMBDA item : ~isExpired(item, t))

\* LRUCache.entries: the [key, value] pairs of the items that are not expired
entries(items, t) ==
  LET live == SelectSeq(items, LAMBDA item : ~isExpired(item, t)) IN
  [i \in DOMAIN live |-> <<live[i].key, live[i].value>>]

\* the history of the puts: fresh while every put was of a new key into a
\* cache with room and nothing was read; keys in the order they were put;
\* overflowed right after the put of a further new key into a cache that
\* such puts had filled
FreshOrder == [fresh |-> TRUE, keys |-> <<>>, overflowed |-> FALSE]
StaleOrder == [fresh |-> FALSE, keys |-> <<>>, overflowed |-> FALSE]
OverflowedOrder == [fresh |-> FALSE, keys |-> <<>>, overflowed |-> TRUE]

\* right after another put of a new key into a full cache: the place in
\* the Map of the item the put has evicted, and whether it was expired
EvictedOrder(items, kept, t) ==
  LET place == CHOOSE i \in DOMAIN items :
                 \A j \in DOMAIN kept : kept[j].key # items[i].key
  IN [fresh |-> FALSE, keys |-> <<>>, overflowed |-> FALSE,
      evicted |-> place,
      expired |-> items[place].expireAt # Null /\ items[place].expireAt.t <= t]

\* the keys and values the cache is used with
CacheKeys == {"a|b", "a|c", "b|c"}
CacheValues == {Route(10, 60), Route(10, 90)}

\* cache.put(key, value) on the LRU cache
LRU_put(key, value) ==
  /\ cache' = LRUCache_put(cache, key, value, now)
  /\ order' = IF order.fresh /\ ~Has(cache.cache, key) /\ Len(cache.cache) < cache.capacity
              THEN [order EXCEPT !.keys = Append(@, key)]
              ELSE IF order.fresh /\ ~Has(cache.cache, key) /\ order.keys # <<>>
              THEN OverflowedOrder
              ELSE IF ~Has(cache.cache, key) /\ Len(cache.cache) >= cache.capacity
              THEN EvictedOrder(cache.cache, cache'.cache, now)
              ELSE StaleOrder
  /\ ret' = [op |-> "put", key |-> key, value |-> value]
  /\ UNCHANGED <<now, taskVars, config, cacheCreated, mongo, calls, schedVars>>

\* cache.get(key) on the LRU cache
LRU_get(key) ==
  /\ cache' = LRUCache_get(cache, key, now).cache
  /\ order' = StaleOrder
  /\ ret' = [op |-> "get", key |-> key, value |-> LRUCache_get(cache, key, now).value]
  /\ UNCHANGED <<now, taskVars, config, cacheCreated, mongo, calls, schedVars>>

LRU_cleanExpired ==
  /\ cache' = [cache EXCEPT !.cache = cleanExpired(@, now)]
  /\ order' = StaleOrder
  /\ ret' = [op |-> "cleanExpired"]
  /\ UNCHANGED <<now, taskVars, config, cacheCreated, mongo, calls, schedVars>>

LRU_entries ==
  /\ ret' = [op |-> "entries", value |-> entries(cache.cache, now)]
  /\ UNCHANGED <<now, taskVars, dirVars, schedVars>>

\* Date.now() grows
CacheAdvance ==
  /\ now < MaxCacheTime
  /\ now' = now + 1
  /\ ret' = NoRet
  /\ UNCHANGED <<taskVars, dirVars, schedVars>>

(***************************************************************************)
(* scheduler/cache.ts: the factory and the persistent cache.  A document   *)
(* of its collection is [key, value, createdAt]; the collection has a      *)
(* unique index on key and a TTL index on createdAt.                       *)
(***************************************************************************)
\* new MongoCache(uri, db, collection, ttl)
MongoCache(ttl) == [type |-> "mongodb", ttl |-> ttl]

\* the configurations the service is started with
Configs ==
  [ENABLE_CACHE : BOOLEAN, CACHE_TYPE : {"memory", "mongodb", "undefined"},
   CACHE_MEM_CAPACITY : 1..MaxCapacity, CACHE_TTL : 0..MaxTTL]

\* CreateCache not looking at ENABLE_CACHE
CreateCache_Always(c) ==
  IF c.CACHE_TYPE = "memory"
  THEN LRUCache(c.CACHE_MEM_CAPACITY, NumberTime(c.CACHE_TTL))
  ELSE IF c.CACHE_TYPE = "mongodb" THEN MongoCache(c.CACHE_TTL)
  ELSE Null

CreateCache(c) ==
  IF ~c.ENABLE_CACHE THEN Null
  ELSE IF c.CACHE_TYPE = "memory"
       THEN LRUCache(c.CACHE_MEM_CAPACITY, NumberTime(c.CACHE_TTL))
  ELSE IF c.CACHE_TYPE = "mongodb" THEN MongoCache(c.CACHE_TTL)
  ELSE Null

\* MongoCache.get finding nothing
MongoCache_get_Miss(coll, key) == Undefined

\* collection.findOne({ key: key }), awaited, and what MongoCache.get makes of it
MongoCache_get(coll, key) ==
  IF \E doc \in coll : doc.key = key
  THEN (CHOOSE doc \in coll : doc.key = key).value
  ELSE Undefined

DuplicateKeyMessage == Str("E11000 duplicate key error collection")
CacheUnavailableMessage == Str("cache store unavailable")

\* MongoCache.put: insertOne under the unique index on key
MongoCache_put(coll, key, value, t) ==
  IF \E doc \in coll : doc.key = key
  THEN [ok |-> FALSE, coll |-> coll, message |-> DuplicateKeyMessage]
  ELSE [ok |-> TRUE, message |-> Str(""),
        coll |-> coll \cup {[key |-> key, value |-> value, createdAt |-> DateTime(t)]}]

\* the TTL monitor on the index { createdAt: 1 } removes an expired document
MongoCacheTTL(doc) ==
  /\ cache # Null
  /\ cache.type = "mongodb"
  /\ doc \in mongo
  /\ doc.createdAt.t + cache.ttl <= now
  /\ mongo' = mongo \ {doc}
  /\ ret' = NoRet
  /\ UNCHANGED <<now, taskVars, config, cacheCreated, cache, calls, order, schedVars>>

(***************************************************************************)
(* scheduler/direction.ts: GetDirection and the routing provider.          *)
(***************************************************************************)
\* concurrent invocations of GetDirection
MaxCallers == 2
Callers == 1..MaxCallers

Origins == {"a"}
Destinations == {"b", "c", "x"}
\* departure times, on the clock of the cache
Departures == {1, 2}

\* milliseconds in a second, on the scale of the model's clock
MsPerSecond == 2

\* `${from}|${to}`
CacheKey(from, to) == from \o "|" \o to

\* Math.ceil(ms / 1000)
CeilSeconds(ms) == (ms + MsPerSecond - 1) \div MsPerSecond

NoQuery == [k |-> "none"]

\* the query parameters with departure_time also for a departure at now
RoutingQuery_NotPast(from, to, departureTime, t) ==
  [origin |-> from, destination |-> to, key |-> "apiKey",
   departure_time |-> IF departureTime >= t
                      THEN NumberTime(CeilSeconds(departureTime)) ELSE Undefined]

\* the query parameters getDirectionFromGoogle builds at time t
RoutingQuery(from, to, departureTime, t) ==
  [origin |-> from, destination |-> to, key |-> "apiKey",
   departure_time |-> IF departureTime > t
                      THEN NumberTime(CeilSeconds(departureTime)) ELSE Undefined]

ProviderErrorMessage == Str("Google Maps API request failed")

\* what getDirectionFromGoogle makes of the provider's answer to a query:
\* the first leg of the first route, or null when the answer has no route.
\* The provider answers with the travel time at departure_time when given
Provider(query) ==
  IF query.destination = "x" THEN Null
  ELSE Route(10, IF query.departure_time # Undefined THEN 90 ELSE 60)

NoOut == [k |-> "none"]
Returned(value) == [ok |-> TRUE, value |-> value, message |-> Str("")]
Thrown(message) == [ok |-> FALSE, value |-> Undefined, message |-> message]

\* an invocation: where it is, its arguments, the routing query it sent,
\* the cache operations it issued, whether one of them raised, its outcome
IdleCall ==
  [pc |-> "idle", from |-> "", to |-> "", departureTime |-> 0, query |-> NoQuery,
   cacheOps |-> <<>>, cacheFailed |-> FALSE, out |-> NoOut]

\* getCache(): the cache, created on the first call
getCache == IF cacheCreated THEN cache ELSE CreateCache(config)

\* GetDirection is called: getCache, then cache.get when there is a cache.
\* The LRU cache answers at once; the persistent cache is awaited.  Without
\* a hit getDirectionFromGoogle builds its query and awaits the provider
GetDirection_call(c, from, to, departureTime) ==
  /\ calls[c].pc = "idle"
  /\ cacheCreated' = TRUE
  /\ LET key == CacheKey(from, to)
         call == [IdleCall EXCEPT !.from = from, !.to = to,
                                  !.departureTime = departureTime]
         asked == [call EXCEPT !.pc = "fetch",
                               !.query = RoutingQuery(from, to, departureTime, now)]
     IN
     IF getCache = Null
     THEN /\ cache' = Null
          /\ calls' = [calls EXCEPT ![c] = asked]
          /\ UNCHANGED order
     ELSE IF getCache.type = "memory"
     THEN LET got == LRUCache_get(getCache, key, now) IN
          /\ cache' = got.cache
          /\ order' = StaleOrder
          /\ calls' = [calls EXCEPT ![c] =
                         IF Truthy(got.value)
                         THEN [call EXCEPT !.pc = "done", !.cacheOps = <<"get">>,
                                           !.out = Returned(got.value)]
                         ELSE [asked EXCEPT !.cacheOps = <<"get">>]]
     ELSE /\ cache' = getCache
          /\ calls' = [calls EXCEPT ![c] = [call EXCEPT !.pc = "get"]]
          /\ UNCHANGED order
  /\ ret' = NoRet
  /\ UNCHANGED <<now, taskVars, config, mongo, schedVars>>

\* the persistent cache answers cache.get, or raises when its store is not up
GetDirection_get(c, up) ==
  /\ calls[c].pc = "get"
  /\ LET key == CacheKey(calls[c].from, calls[c].to)
         v == MongoCache_get(mongo, key)
         call == [calls[c] EXCEPT !.cacheOps = Append(@, "get")]
     IN
     calls' = [calls EXCEPT ![c] =
                 IF ~up
                 THEN [call EXCEPT !.pc = "done", !.cacheFailed = TRUE,
                                   !.out = Thrown(CacheUnavailableMessage)]
                 ELSE IF Truthy(v)
                 THEN [call EXCEPT !.pc = "done", !.out = Returned(v)]
                 ELSE [call EXCEPT !.pc = "fetch",
                                   !.query = RoutingQuery(call.from, call.to,
                                                          call.departureTime, now)]]
  /\ ret' = NoRet
  /\ UNCHANGED <<now, taskVars, config, cacheCreated, cache, mongo, order, schedVars>>

\* GetDirection putting whatever getDirectionFromGoogle returns, null too
GetDirection_fetch_PutNull(c, http) ==
  /\ calls[c].pc = "fetch"
  /\ LET key == CacheKey(calls[c].from, calls[c].to)
         res == Provider(calls[c].query)
     IN
     IF ~http
     THEN /\ calls' = [calls EXCEPT ![c].pc = "done",
                                    ![c].out = Thrown(ProviderErrorMessage)]
          /\ UNCHANGED <<cache, order>>
     ELSE IF cache # Null
     THEN IF cache.type = "memory"
          THEN /\ cache' = LRUCache_put(cache, key, res, now)
               /\ order' = StaleOrder
               /\ calls' = [calls EXCEPT ![c].pc = "done",
                                         ![c].cacheOps = Append(@, "put"),
                                         ![c].out = Returned(res)]
          ELSE /\ calls' = [calls EXCEPT ![c].pc = "put", ![c].out = Returned(res)]
               /\ UNCHANGED <<cache, order>>
     ELSE /\ calls' = [calls EXCEPT ![c].pc = "done", ![c].out = Returned(res)]
          /\ UNCHANGED <<cache, order>>
  /\ ret' = NoRet
  /\ UNCHANGED <<now, taskVars, config, cacheCreated, mongo, schedVars>>

\* the provider answers (http: its answer is OK, else getDirectionFromGoogle
\* throws); a route is put into the cache when there is one: the LRU cache
\* takes it at once, the persistent cache is awaited
GetDirection_fetch(c, http) ==
  /\ calls[c].pc = "fetch"
  /\ LET key == CacheKey(calls[c].from, calls[c].to)
         res == Provider(calls[c].query)
     IN
     IF ~http
     THEN /\ calls' = [calls EXCEPT ![c].pc = "done",
                                    ![c].out = Thrown(ProviderErrorMessage)]
          /\ UNCHANGED <<cache, order>>
     ELSE IF cache # Null /\ Truthy(res)
     THEN IF cache.type = "memory"
          THEN /\ cache' = LRUCache_put(cache, key, res, now)
               /\ order' = StaleOrder
               /\ calls' = [calls EXCEPT ![c].pc = "done",
                                         ![c].cacheOps = Append(@, "put"),
                                         ![c].out = Returned(res)]
          ELSE /\ calls' = [calls EXCEPT ![c].pc = "put", ![c].out = Returned(res)]
               /\ UNCHANGED <<cache, order>>
     ELSE /\ calls' = [calls EXCEPT ![c].pc = "done", ![c].out = Returned(res)]
          /\ UNCHANGED <<cache, order>>
  /\ ret' = NoRet
  /\ UNCHANGED <<now, taskVars, config, cacheCreated, mongo, schedVars>>

\* the persistent cache answers cache.put, or raises: its store is not up,
\* or the key is already there
GetDirection_put(c, up) ==
  /\ calls[c].pc = "put"
  /\ LET key == CacheKey(calls[c].from, calls[c].to)
         put == MongoCache_put(mongo, key, calls[c].out.value, now)
         call == [calls[c] EXCEPT !.pc = "done", !.cacheOps = Append(@, "put")]
     IN
     IF ~up
     THEN /\ calls' = [calls EXCEPT ![c] =
                         [call EXCEPT !.cacheFailed = TRUE,
                                      !.out = Thrown(CacheUnavailableMessage)]]
          /\ UNCHANGED mongo
     ELSE IF ~put.ok
     THEN /\ calls' = [calls EXCEPT ![c] =
                         [call EXCEPT !.cacheFailed = TRUE, !.out = Thrown(put.message)]]
          /\ UNCHANGED mongo
     ELSE /\ calls' = [calls EXCEPT ![c] = call]
          /\ mongo' = put.coll
  /\ ret' = NoRet
  /\ UNCHANGED <<now, taskVars, config, cacheCreated, cache, order, schedVars>>

\* the caller takes the outcome
GetDirection_return(c) ==
  /\ calls[c].pc = "done"
  /\ calls' = [calls EXCEPT ![c] = IdleCall]
  /\ ret' = NoRet
  /\ UNCHANGED <<now, taskVars, config, cacheCreated, cache, mongo, order, schedVars>>

(***************************************************************************)
(* utils/scheduler.ts: the scheduler.  Times are seconds on the day of the *)
(* request; a Date that may be null is null or a date value.               *)
(***************************************************************************)
\* bookings in a request
MaxBookings == 3
\* the pickup times of the bookings
PickupTimes == {0, 1, 3}

\* SchedulerConfig, in milliseconds
DEFAULT_BEFORE_PICKUP_TIME == 1000
DEFAULT_AFTER_PICKUP_TIME == 3000
DEFAULT_DROPOFF_UNLOADING_TIME == 1000

\* context.beforePickupInSec and the like: milliseconds / 1000
InSec(ms) == ms \div 1000

\* the context of a Scheduler: of the request what the times are taken
\* from; a ?? b is b when a is null or undefined
context(request) ==
  [before_pickup_time |-> request.before_pickup_time,
   after_pickup_time |-> request.after_pickup_time,
   dropoff_unloading_time |-> request.dropoff_unloading_time]

beforePickupInSec(this) ==
  InSec(IF this.before_pickup_time \in {Null, Undefined}
        THEN DEFAULT_BEFORE_PICKUP_TIME ELSE this.before_pickup_time.t)

afterPickupInSec(this) ==
  InSec(IF this.after_pickup_time \in {Null, Undefined}
        THEN DEFAULT_AFTER_PICKUP_TIME ELSE this.after_pickup_time.t)

dropoffUnloadingInSec(this) ==
  InSec(IF this.dropoff_unloading_time \in {Null, Undefined}
        THEN DEFAULT_DROPOFF_UNLOADING_TIME ELSE this.dropoff_unloading_time.t)

\* enum MobilityAssistance
Ambulatory == 1
Wheelchair == 2
Stretcher == 16

\* a | b and a & b on the 8 bits of a MobilityAssistance value
BitOr(a, b) ==
  LET RECURSIVE From(_)
      From(i) ==
        IF i > 7 THEN 0
        ELSE (IF (a \div (2 ^ i)) % 2 = 1 \/ (b \div (2 ^ i)) % 2 = 1
              THEN 2 ^ i ELSE 0) + From(i + 1)
  IN From(0)

BitAnd(a, b) ==
  LET RECURSIVE From(_)
      From(i) ==
        IF i > 7 THEN 0
        ELSE (IF (a \div (2 ^ i)) % 2 = 1 /\ (b \div (2 ^ i)) % 2 = 1
              THEN 2 ^ i ELSE 0) + From(i + 1)
  IN From(0)

\* str.toUpperCase() of the tags the model uses
ToUpperCase(str) ==
  CASE str \in {"Stretcher", "stretcher", "STRETCHER"} -> "STRETCHER"
    [] str \in {"Wheelchair", "wheelchair", "WHEELCHAIR"} -> "WHEELCHAIR"
    [] str \in {"Ambulatory", "AMBULATORY"} -> "AMBULATORY"
    [] str = "cane" -> "CANE"
    [] OTHER -> str

\* parseMA(...args): the | of the parsed tags, an unknown tag taken for
\* Ambulatory; reduce without an initial value throws a TypeError on an
\* empty array
parseMA(args) ==
  LET parse(str) ==
        CASE ToUpperCase(str) = "STRETCHER" -> Stretcher
          [] ToUpperCase(str) = "WHEELCHAIR" -> Wheelchair
          [] OTHER -> Ambulatory
      RECURSIVE Reduce(_, _)
      Reduce(prev, rest) ==
        IF rest = <<>> THEN prev
        ELSE Reduce(BitOr(prev, parse(Head(rest))), Tail(rest))
  IN
  IF args = <<>>
  THEN [ok |-> FALSE, value |-> 0,
        message |-> Str("TypeError: Reduce of empty array with no initial value")]
  ELSE [ok |-> TRUE, value |-> Reduce(parse(Head(args)), Tail(args)),
        message |-> Str("")]

\* priorityMa asking for the wheelchair first
priorityMa_WheelchairFirst(ma) ==
  IF BitAnd(ma, Wheelchair) # 0 THEN 1
  ELSE IF BitAnd(ma, Stretcher) # 0 THEN 0
  ELSE 2

priorityMa(ma) ==
  IF BitAnd(ma, Stretcher) # 0 THEN 0
  ELSE IF BitAnd(ma, Wheelchair) # 0 THEN 1
  ELSE 2

codeMA(ma) ==
  (IF BitAnd(ma, Stretcher) # 0 THEN "GUR" ELSE "")
    \o (IF BitAnd(ma, Wheelchair) # 0 THEN "WC" ELSE "AMBI")

\* GetDirection with a cache that is cold in the first run: the provider
\* answers with the travel time at the departure, the cache with another
Direction_ColdFirst(from, to) ==
  IF from = "c" /\ to = "a" THEN Null
  ELSE IF from = to THEN Route(0, 0)
  ELSE IF runs = <<>> THEN Route(1000, 2)
  ELSE Route(1000, 1)

\* the addresses of the bookings, and what GetDirection answers for a pair
\* of them with a warm cache: no route from c to a, no way for one address
Direction(from, to) ==
  IF from = "c" /\ to = "a" THEN Null
  ELSE IF from = to THEN Route(0, 0)
  ELSE Route(1000, 1)

\* the bookings of the requests: from a to b, from b to c, and from c to a
\* where there is no route; with a passenger_id or without
Bookings ==
  {b \in [ passenger_id : {"p1", ""},
           passenger_firstname : {"Ann"}, passenger_lastname : {"Lee"},
           pickup_time : PickupTimes,
           pickup_address : {"a", "b", "c"}, dropoff_address : {"a", "b", "c"},
           mobility_assistance :
             {<<"Wheelchair", "STRETCHER">>, <<"wheelchair">>, <<"cane">>},
           travel_distance : {Undefined}, travel_time : {Undefined} ] :
     <<b.pickup_address, b.dropoff_address>> \in
       {<<"a", "b">>, <<"b", "c">>, <<"c", "a">>}}

\* TripInfo.create and the constructor: the trip of the booking at place i,
\* or the error thrown
TripInfo_create(this, booking, i) ==
  LET result == Direction(booking.pickup_address, booking.dropoff_address)
      ma == parseMA(booking.mobility_assistance)
  IN
  IF result = Null THEN [ok |-> FALSE, message |-> Str("No routes found for the given query")]
  ELSE IF ~ma.ok THEN [ok |-> FALSE, message |-> ma.message]
  ELSE [ok |-> TRUE, message |-> Str(""),
        trip |-> [ context |-> this,
                   booking |-> i,
                   pickupAddress |-> booking.pickup_address,
                   dropOffAddress |-> booking.dropoff_address,
                   passenger |-> IF booking.passenger_id # ""
                                 THEN booking.passenger_id
                                 ELSE booking.passenger_firstname \o " "
                                        \o booking.passenger_lastname,
                   assistance |-> ma.value,
                   pickupTime |-> booking.pickup_time,
                   distanceInMeter |-> result.distanceInMeter,
                   durationInSec |-> result.durationInSec,
                   isLast |-> FALSE,
                   adjustedPickupTime |-> Null,
                   earliestArrivalTime |-> Null ]]

\* the write back with the two fields taken for one another
WriteBack_Swapped(booking) ==
  [booking EXCEPT
     !.travel_distance =
        NumberTime(Direction(booking.pickup_address, booking.dropoff_address).durationInSec),
     !.travel_time =
        NumberTime(Direction(booking.pickup_address, booking.dropoff_address).distanceInMeter)]

\* the write back of the constructor to its booking
WriteBack(booking) ==
  [booking EXCEPT
     !.travel_distance =
        NumberTime(Direction(booking.pickup_address, booking.dropoff_address).distanceInMeter),
     !.travel_time =
        NumberTime(Direction(booking.pickup_address, booking.dropoff_address).durationInSec)]

\* latestPickupTime with the delay for every trip
latestPickupTime_AnyTrip(trip) == trip.pickupTime + afterPickupInSec(trip.context)

\* TripInfo.latestPickupTime, dropoffTime, finishTime
latestPickupTime(trip) ==
  IF trip.isLast THEN trip.pickupTime + afterPickupInSec(trip.context)
  ELSE trip.pickupTime

dropoffTime(trip) ==
  IF Truthy(trip.adjustedPickupTime)
  THEN trip.adjustedPickupTime.t + trip.durationInSec
  ELSE trip.pickupTime + trip.durationInSec

finishTime(trip) == dropoffTime(trip) + dropoffUnloadingInSec(trip.context)

\* trips.sort by pickupTime (Array.prototype.sort is stable): insertion of
\* each trip after the trips that are not later than it
SortByPickupTime(trips) ==
  LET RECURSIVE Insert(_, _)
      Insert(sorted, trip) ==
        IF sorted = <<>> THEN <<trip>>
        ELSE IF Head(sorted).pickupTime - trip.pickupTime <= 0
             THEN <<Head(sorted)>> \o Insert(Tail(sorted), trip)
             ELSE <<trip>> \o sorted
      RECURSIVE Sort(_)
      Sort(n) == IF n = 0 THEN <<>> ELSE Insert(Sort(n - 1), trips[n])
  IN Sort(Len(trips))

\* markLastLeg marking the earliest trip of a passenger with several trips
markLastLeg_First(trips) ==
  LET sorted == SortByPickupTime(trips) IN
  [i \in DOMAIN sorted |->
     [sorted[i] EXCEPT !.isLast =
        /\ \E j \in DOMAIN sorted : j # i /\ sorted[j].passenger = sorted[i].passenger
        /\ \A j \in DOMAIN sorted : sorted[j].passenger = sorted[i].passenger => j >= i]]

\* markLastLeg: the trips sorted, and of every passenger with more than one
\* trip the last one in that order marked
markLastLeg(trips) ==
  LET sorted == SortByPickupTime(trips) IN
  [i \in DOMAIN sorted |->
     [sorted[i] EXCEPT !.isLast =
        /\ \E j \in DOMAIN sorted : j # i /\ sorted[j].passenger = sorted[i].passenger
        /\ \A j \in DOMAIN sorted : sorted[j].passenger = sorted[i].passenger => j <= i]]

\* getPriorityTrips: the three queues, of the places of the trips in
\* allTrips, each in the order of allTrips
getPriorityTrips(trips) ==
  LET RECURSIVE From(_, _)
      From(p, i) ==
        IF i > Len(trips) THEN <<>>
        ELSE (IF priorityMa(trips[i].assistance) = p THEN <<i>> ELSE <<>>)
               \o From(p, i + 1)
  IN [p \in 1..3 |-> From(p - 1, 1)]

\* isTripFitVehicle without the check of the estimated arrival
isTripFitVehicle_AnyArrival(trips, vehicle, next) ==
  LET last == trips[vehicle.trips[Len(vehicle.trips)]]
      direction == Direction(last.dropOffAddress, next.pickupAddress)
  IN
  IF finishTime(last) > latestPickupTime(next) THEN Null
  ELSE IF last.dropOffAddress = next.pickupAddress THEN DateTime(finishTime(last))
  ELSE IF direction = Null THEN Null
  ELSE DateTime(finishTime(last) + direction.durationInSec)

\* isTripFitVehicle taking a vehicle without a route to the pickup to be
\* there when its last trip is finished
isTripFitVehicle_NoRouteFits(trips, vehicle, next) ==
  LET last == trips[vehicle.trips[Len(vehicle.trips)]]
      direction == Direction(last.dropOffAddress, next.pickupAddress)
  IN
  IF finishTime(last) > latestPickupTime(next) THEN Null
  ELSE IF last.dropOffAddress = next.pickupAddress THEN DateTime(finishTime(last))
  ELSE IF direction = Null THEN DateTime(finishTime(last))
  ELSE IF finishTime(last) + direction.durationInSec > latestPickupTime(next) THEN Null
  ELSE DateTime(finishTime(last) + direction.durationInSec)

\* isTripFitVehicle: the estimated arrival of the vehicle at the pickup of
\* next after its last trip, or null when it would be too late or no way
isTripFitVehicle(trips, vehicle, next) ==
  LET last == trips[vehicle.trips[Len(vehicle.trips)]]
      direction == Direction(last.dropOffAddress, next.pickupAddress)
  IN
  IF finishTime(last) > latestPickupTime(next) THEN Null
  ELSE IF last.dropOffAddress = next.pickupAddress THEN DateTime(finishTime(last))
  ELSE IF direction = Null THEN Null
  ELSE IF finishTime(last) + direction.durationInSec > latestPickupTime(next) THEN Null
  ELSE DateTime(finishTime(last) + direction.durationInSec)

\* isBetter: an arrival after the wanted one loses to an earlier one, an
\* arrival in time loses to a later one
isBetter(coming, current, trip) ==
  IF trip.isLast
  THEN IF current > trip.pickupTime THEN coming < current ELSE coming > current
  ELSE IF current > trip.pickupTime - beforePickupInSec(trip.context)
       THEN coming < current
       ELSE coming > current

\* the loop of scheduleTrips over the vehicles of the plan, from vehicle i
RECURSIVE BestFrom(_, _, _, _, _)
BestFrom(trips, plan_, next, i, best) ==
  IF i > Len(plan_) THEN best
  ELSE LET arrival == isTripFitVehicle(trips, plan_[i], next) IN
       IF arrival = Null THEN BestFrom(trips, plan_, next, i + 1, best)
       ELSE IF best.arrival = Null
       THEN BestFrom(trips, plan_, next, i + 1, [vehicle |-> i, arrival |-> arrival])
       ELSE IF isBetter(arrival.t, best.arrival.t, next)
       THEN BestFrom(trips, plan_, next, i + 1, [vehicle |-> i, arrival |-> arrival])
       ELSE BestFrom(trips, plan_, next, i + 1, best)

\* VehicleInfo numbered from 0
VehicleInfo_FromZero(idx, firstTrip) == [idx |-> idx - 1, trips |-> <<firstTrip>>]

\* new VehicleInfo(idx, firstTrip)
VehicleInfo(idx, firstTrip) == [idx |-> idx, trips |-> <<firstTrip>>]

\* scheduleTrips taking the arrival of the vehicle for the pickup time
scheduleTrip_AtArrival(trips, plan_, place) ==
  LET trip == trips[place]
      best == BestFrom(trips, plan_, trip, 1, [vehicle |-> 0, arrival |-> Null])
      adjusted == IF best.arrival = Null
                  THEN DateTime(trip.pickupTime) ELSE best.arrival
  IN
  IF best.vehicle = 0
  THEN [plan |-> Append(plan_, VehicleInfo(Len(plan_) + 1, place)),
        trips |-> [trips EXCEPT
           ![place].earliestArrivalTime =
              IF trip.isLast THEN DateTime(trip.pickupTime)
              ELSE DateTime(trip.pickupTime - beforePickupInSec(trip.context)),
           ![place].adjustedPickupTime = adjusted]]
  ELSE [plan |-> [plan_ EXCEPT ![best.vehicle].trips = Append(@, place)],
        trips |-> [trips EXCEPT
           ![place].earliestArrivalTime = best.arrival,
           ![place].adjustedPickupTime = adjusted]]

\* scheduleTrips giving an appended trip the earliest arrival of a trip that
\* opens a vehicle
scheduleTrip_EarlyArrival(trips, plan_, place) ==
  LET trip == trips[place]
      best == BestFrom(trips, plan_, trip, 1, [vehicle |-> 0, arrival |-> Null])
      adjusted == IF best.arrival = Null \/ best.arrival.t < trip.pickupTime
                  THEN DateTime(trip.pickupTime) ELSE best.arrival
      early == IF trip.isLast THEN DateTime(trip.pickupTime)
               ELSE DateTime(trip.pickupTime - beforePickupInSec(trip.context))
  IN
  IF best.vehicle = 0
  THEN [plan |-> Append(plan_, VehicleInfo(Len(plan_) + 1, place)),
        trips |-> [trips EXCEPT
           ![place].earliestArrivalTime = early,
           ![place].adjustedPickupTime = adjusted]]
  ELSE [plan |-> [plan_ EXCEPT ![best.vehicle].trips = Append(@, place)],
        trips |-> [trips EXCEPT
           ![place].earliestArrivalTime = early,
           ![place].adjustedPickupTime = adjusted]]

\* the body of the loop of scheduleTrips for the trip at a place of trips:
\* the plan and the trips after it
scheduleTrip(trips, plan_, place) ==
  LET trip == trips[place]
      best == BestFrom(trips, plan_, trip, 1, [vehicle |-> 0, arrival |-> Null])
      adjusted == IF best.arrival = Null \/ best.arrival.t < trip.pickupTime
                  THEN DateTime(trip.pickupTime) ELSE best.arrival
  IN
  IF best.vehicle = 0
  THEN [plan |-> Append(plan_, VehicleInfo(Len(plan_) + 1, place)),
        trips |-> [trips EXCEPT
           ![place].earliestArrivalTime =
              IF trip.isLast THEN DateTime(trip.pickupTime)
              ELSE DateTime(trip.pickupTime - beforePickupInSec(trip.context)),
           ![place].adjustedPickupTime = adjusted]]
  ELSE [plan |-> [plan_ EXCEPT ![best.vehicle].trips = Append(@, place)],
        trips |-> [trips EXCEPT
           ![place].earliestArrivalTime = best.arrival,
           ![place].adjustedPickupTime = adjusted]]

\* VehicleInfo.name
VehicleName(trips, vehicle) ==
  LET RECURSIVE Reduce(_, _)
      Reduce(prev, rest) ==
        IF rest = <<>> THEN prev
        ELSE Reduce(BitOr(prev, trips[Head(rest)].assistance), Tail(rest))
  IN ToString(vehicle.idx)
       \o codeMA(Reduce(trips[Head(vehicle.trips)].assistance, Tail(vehicle.trips)))

\* getResponse: the vehicles of the plan, each with its name and the
\* bookings of its trips
getResponse(trips, plan_) ==
  [v \in DOMAIN plan_ |->
     [shuttle_name |-> VehicleName(trips, plan_[v]),
      trips |-> [k \in DOMAIN plan_[v].trips |->
                   [bookings |-> <<trips[plan_[v].trips[k]].booking>>]]]]

(***************************************************************************)
(* DoSchedule, step by step.  schedRequest is the request with its         *)
(* bookings, held by reference: TripInfo writes to them.                   *)
(* allTrips the trips, priorityTrips the three queues (places in           *)
(* allTrips), queue what the loops over them have still to schedule, plan  *)
(* the vehicles with the places of their trips, runs the finished runs.    *)
(***************************************************************************)
\* the place of the first booking whose trip is not made, or 0
FirstFailed(this, bookings) ==
  LET RECURSIVE From(_)
      From(i) ==
        IF i > Len(bookings) THEN 0
        ELSE IF ~TripInfo_create(this, bookings[i], i).ok THEN i
        ELSE From(i + 1)
  IN From(1)

\* a finished run of DoSchedule: what it returned or threw, and its plan
\* and trips
Run(out) == [response |-> out, plan |-> plan, allTrips |-> allTrips]

\* getTripsFromBooking: a trip for every booking, each written back to its
\* booking, up to the first that throws, which rejects DoSchedule
Scheduler_getTripsFromBooking ==
  /\ schedPc = "start"
  /\ LET bookings == schedRequest.bookings
         failedAt == FirstFailed(context(schedRequest), bookings)
     IN
     IF failedAt = 0
     THEN /\ allTrips' = [i \in DOMAIN bookings |-> TripInfo_create(context(schedRequest), bookings[i], i).trip]
          /\ schedRequest' = [schedRequest EXCEPT !.bookings =
                           [i \in DOMAIN bookings |-> WriteBack(bookings[i])]]
          /\ schedPc' = "trips"
          /\ UNCHANGED runs
     ELSE /\ schedRequest' = [schedRequest EXCEPT !.bookings =
                           [i \in DOMAIN bookings |->
                              IF i < failedAt THEN WriteBack(bookings[i])
                              ELSE bookings[i]]]
          /\ runs' = Append(runs, Run(Thrown(TripInfo_create(context(schedRequest), bookings[failedAt],
                                                           failedAt).message)))
          /\ schedPc' = "done"
          /\ UNCHANGED allTrips
  /\ ret' = NoRet
  /\ UNCHANGED <<now, taskVars, dirVars, parked, called, priorityTrips, queue, plan>>

\* this.markLastLeg(allTrips), in place
Scheduler_markLastLeg ==
  /\ schedPc = "trips"
  /\ allTrips' = markLastLeg(allTrips)
  /\ schedPc' = "marked"
  /\ ret' = NoRet
  /\ UNCHANGED <<now, taskVars, dirVars, parked, called, schedRequest, priorityTrips, queue, plan, runs>>

\* getPriorityTrips; the loops over the queues are to schedule every trip
Scheduler_getPriorityTrips ==
  /\ schedPc = "marked"
  /\ priorityTrips' = getPriorityTrips(allTrips)
  /\ queue' = priorityTrips'[1] \o priorityTrips'[2] \o priorityTrips'[3]
  /\ schedPc' = "scheduling"
  /\ ret' = NoRet
  /\ UNCHANGED <<now, taskVars, dirVars, parked, called, schedRequest, allTrips, plan, runs>>

\* one turn of the loop of scheduleTrips
Scheduler_scheduleTrips ==
  /\ schedPc = "scheduling"
  /\ queue # <<>>
  /\ LET scheduled == scheduleTrip(allTrips, plan, Head(queue)) IN
     /\ plan' = scheduled.plan
     /\ allTrips' = scheduled.trips
  /\ queue' = Tail(queue)
  /\ ret' = NoRet
  /\ UNCHANGED <<now, taskVars, dirVars, parked, called, schedRequest, priorityTrips, schedPc, runs>>

\* the loops are over: DoSchedule returns the response
Scheduler_getResponse ==
  /\ schedPc = "scheduling"
  /\ queue = <<>>
  /\ runs' = Append(runs, Run(Returned(getResponse(allTrips, plan))))
  /\ schedPc' = "done"
  /\ ret' = NoRet
  /\ UNCHANGED <<now, taskVars, dirVars, parked, called, schedRequest, allTrips, priorityTrips, queue, plan>>

\* runs of DoSchedule on one request
MaxRuns == 2

\* DoSchedule is called again with the same request
Scheduler_DoSchedule ==
  /\ schedPc = "done"
  /\ Len(runs) < MaxRuns
  /\ allTrips' = <<>>
  /\ priorityTrips' = <<<<>>, <<>>, <<>>>>
  /\ queue' = <<>>
  /\ plan' = <<>>
  /\ schedPc' = "start"
  /\ ret' = NoRet
  /\ UNCHANGED <<now, taskVars, dirVars, parked, called, schedRequest, runs>>

\* the request with the state of its DoSchedule module-wide, as where
\* config.request is a variable of the module: an await keeps it
Scheduler_await_ModuleRequest ==
  /\ parked.schedPc \notin {"none", "done"}
  /\ parked' = [schedRequest |-> parked.schedRequest, allTrips |-> allTrips,
                priorityTrips |-> priorityTrips, queue |-> queue, plan |-> plan,
                schedPc |-> schedPc]
  /\ schedRequest' = schedRequest
  /\ allTrips' = parked.allTrips
  /\ priorityTrips' = parked.priorityTrips
  /\ queue' = parked.queue
  /\ plan' = parked.plan
  /\ schedPc' = parked.schedPc
  /\ called' = <<called[2], called[1]>>
  /\ ret' = NoRet
  /\ UNCHANGED <<now, taskVars, dirVars, runs>>

\* an await of DoSchedule, or its end, lets the other DoSchedule go on from
\* its await: each has its own Scheduler with its request, context, trips
\* and plan
Scheduler_await ==
  /\ parked.schedPc \notin {"none", "done"}
  /\ parked' = [schedRequest |-> schedRequest, allTrips |-> allTrips,
                priorityTrips |-> priorityTrips, queue |-> queue, plan |-> plan,
                schedPc |-> schedPc]
  /\ schedRequest' = parked.schedRequest
  /\ allTrips' = parked.allTrips
  /\ priorityTrips' = parked.priorityTrips
  /\ queue' = parked.queue
  /\ plan' = parked.plan
  /\ schedPc' = parked.schedPc
  /\ called' = <<called[2], called[1]>>
  /\ ret' = NoRet
  /\ UNCHANGED <<now, taskVars, dirVars, runs>>

\* no scheduler
NoScheduler ==
  /\ parked = [schedPc |-> "none"]
  /\ called = <<>>
  /\ schedRequest = [bookings |-> <<>>, before_pickup_time |-> Undefined,
                     after_pickup_time |-> Undefined,
                     dropoff_unloading_time |-> Undefined]
  /\ allTrips = <<>>
  /\ priorityTrips = <<<<>>, <<>>, <<>>>>
  /\ queue = <<>>
  /\ plan = <<>>
  /\ runs = <<>>
  /\ schedPc = "none"

\* the directions service before Init is called and before any lookup
NoDirections ==
  /\ config = [ENABLE_CACHE |-> FALSE, CACHE_TYPE |-> "undefined",
               CACHE_MEM_CAPACITY |-> 1, CACHE_TTL |-> 0]
  /\ cacheCreated = FALSE
  /\ cache = Null
  /\ mongo = {}
  /\ calls = [c \in Callers |-> IdleCall]
  /\ order = FreshOrder

Init ==
  /\ NoScheduler
  /\ NoDirections
  /\ store = [d \in DocIds |-> NoDoc]
  /\ nextId = 0
  /\ now = 0
  /\ ret = NoRet
  /\ tick = [k \in Ticks |-> IdleTick]
  /\ jobs = [k \in Ticks |-> NoJobs]
  /\ threads \in 1..MaxHostThreads
  /\ handed = [d \in DocIds |-> 0]

Next ==
  \/ \E r \in Requests, t \in TaskIds, up \in BOOLEAN : CreateTask(r, t, up)
  \/ Advance
  \/ \E d \in DocIds : TTLMonitor(d)
  \/ \E k \in Ticks, up \in BOOLEAN : StartProcessor_interval(k, up)
  \/ \E k \in Ticks : fetchPendingDocs_find(k)
  \/ \E k \in Ticks : fetchPendingDocs_updateMany(k)
  \/ \E k \in Ticks : processPendingTasks_dispatch(k)
  \/ \E k \in Ticks : processPendingTasks_settle(k)
  \/ \E k \in Ticks, d \in DocIds : piscina_run(k, d)
  \/ \E k \in Ticks, d \in DocIds : process_finish(k, d)

Spec == Init /\ [][Next]_vars

(***************************************************************************)
(* The scheduling of the code: the timer keeps firing, every await         *)
(* resumes, the pool runs what is queued and workers run to their end.     *)
(***************************************************************************)
Fairness ==
  /\ \A k \in Ticks : WF_vars(StartProcessor_interval(k, TRUE))
  /\ \A k \in Ticks : WF_vars(fetchPendingDocs_find(k))
  /\ \A k \in Ticks : WF_vars(fetchPendingDocs_updateMany(k))
  /\ \A k \in Ticks : WF_vars(processPendingTasks_dispatch(k))
  /\ \A k \in Ticks : WF_vars(processPendingTasks_settle(k))
  /\ \A k \in Ticks, d \in DocIds : WF_vars(piscina_run(k, d))
  /\ \A k \in Ticks, d \in DocIds : WF_vars(process_finish(k, d))

LiveSpec == Init /\ [][Next]_vars /\ Fairness

(***************************************************************************)
(* GetTask on its own: the collection holds any documents of the shapes    *)
(* the code writes (insert, claim, completion, failure) and the handler    *)
(* reads them.                                                             *)
(***************************************************************************)
ResponseBodies == {Undefined, Null, JSONstringify(Calculate(Obj("rqOk")).value)}
ErrorMessages == {Undefined, Null, SyntaxErrorMessage, NoRouteMessage}

TaskDocs ==
  { ApplySet(NewTask(t, Obj("rqOk"), 0),
             [status |-> s, responseBody |-> rb, errorMessage |-> em]) :
      t \in TaskIds, s \in TaskStatus, rb \in ResponseBodies, em \in ErrorMessages }

UniqueTaskIds(coll) ==
  \A d1, d2 \in DOMAIN coll :
    (coll[d1] # NoDoc /\ coll[d2] # NoDoc /\ coll[d1].taskId = coll[d2].taskId) => d1 = d2

InitGetTask ==
  /\ NoScheduler
  /\ NoDirections
  /\ store \in [DocIds -> TaskDocs \cup {NoDoc}]
  /\ UniqueTaskIds(store)
  /\ nextId = MaxDocs
  /\ now = 0
  /\ ret = NoRet
  /\ tick = [k \in Ticks |-> IdleTick]
  /\ jobs = [k \in Ticks |-> NoJobs]
  /\ threads = 1
  /\ handed = [d \in DocIds |-> 0]

NextGetTask == \E t \in TaskIds : GetTaskCall(t)

SpecGetTask == InitGetTask /\ [][NextGetTask]_vars

(***************************************************************************)
(* The task pipeline at rest, for the specifications of the cache and of   *)
(* the directions service.                                                 *)
(***************************************************************************)
NoTasks ==
  /\ store = [d \in DocIds |-> NoDoc]
  /\ nextId = 0
  /\ tick = [k \in Ticks |-> IdleTick]
  /\ jobs = [k \in Ticks |-> NoJobs]
  /\ threads = 1
  /\ handed = [d \in DocIds |-> 0]

(***************************************************************************)
(* The LRU cache on its own: a cache of any capacity and TTL (null, zero   *)
(* or positive), and any sequence of its operations while time passes.     *)
(***************************************************************************)
TTLs == {Null} \cup {NumberTime(n) : n \in 0..MaxTTL}

InitCache ==
  /\ NoScheduler
  /\ NoTasks
  /\ now = 0
  /\ ret = NoRet
  /\ config = [ENABLE_CACHE |-> TRUE, CACHE_TYPE |-> "memory",
               CACHE_MEM_CAPACITY |-> 1, CACHE_TTL |-> 0]
  /\ cacheCreated = TRUE
  /\ \E capacity \in 1..MaxCapacity, ttl \in TTLs : cache = LRUCache(capacity, ttl)
  /\ mongo = {}
  /\ calls = [c \in Callers |-> IdleCall]
  /\ order = FreshOrder

NextCache ==
  \/ \E key \in CacheKeys, value \in CacheValues : LRU_put(key, value)
  \/ \E key \in CacheKeys : LRU_get(key)
  \/ LRU_cleanExpired
  \/ LRU_entries
  \/ CacheAdvance

SpecCache == InitCache /\ [][NextCache]_vars

(***************************************************************************)
(* The directions service: any configuration, concurrent lookups.          *)
(***************************************************************************)
InitDirection ==
  /\ NoScheduler
  /\ NoTasks
  /\ now = 0
  /\ ret = NoRet
  /\ config \in Configs
  /\ cacheCreated = FALSE
  /\ cache = Null
  /\ mongo = {}
  /\ calls = [c \in Callers |-> IdleCall]
  /\ order = FreshOrder

NextDirection ==
  \/ \E c \in Callers, from \in Origins, to \in Destinations, dep \in Departures :
       GetDirection_call(c, from, to, dep)
  \/ \E c \in Callers, up \in BOOLEAN : GetDirection_get(c, up)
  \/ \E c \in Callers, http \in BOOLEAN : GetDirection_fetch(c, http)
  \/ \E c \in Callers, up \in BOOLEAN : GetDirection_put(c, up)
  \/ \E c \in Callers : GetDirection_return(c)
  \/ \E doc \in mongo : MongoCacheTTL(doc)
  \/ CacheAdvance

SpecDirection == InitDirection /\ [][NextDirection]_vars

(***************************************************************************)
(* The scheduler: DoSchedule on any request of up to MaxBookings bookings. *)
(***************************************************************************)
RECURSIVE SeqsUpTo(_, _)
SeqsUpTo(S, n) ==
  IF n = 0 THEN {<<>>}
  ELSE LET shorter == SeqsUpTo(S, n - 1) IN
       shorter \cup {Append(s, x) : s \in {t \in shorter : Len(t) = n - 1}, x \in S}

\* new Scheduler(config, request), for a request with one of the lists of
\* bookings and, for each of its three times, one of the overrides
NewScheduler(bookingLists, overrides) ==
  /\ NoTasks
  /\ NoDirections
  /\ now = 0
  /\ ret = NoRet
  /\ schedRequest \in [bookings : bookingLists,
                      before_pickup_time : overrides,
                      after_pickup_time : overrides,
                      dropoff_unloading_time : overrides]
  /\ allTrips = <<>>
  /\ priorityTrips = <<<<>>, <<>>, <<>>>>
  /\ queue = <<>>
  /\ plan = <<>>
  /\ runs = <<>>
  /\ schedPc = "start"
  /\ parked = [schedPc |-> "none"]
  /\ called = <<>>

InitScheduler == NewScheduler(SeqsUpTo(Bookings, MaxBookings) \ {<<>>}, {Undefined})

NextScheduler ==
  \/ Scheduler_getTripsFromBooking
  \/ Scheduler_markLastLeg
  \/ Scheduler_getPriorityTrips
  \/ Scheduler_scheduleTrips
  \/ Scheduler_getResponse

SpecScheduler == InitScheduler /\ [][NextScheduler]_vars

(***************************************************************************)
(* DoSchedule twice on one request.                                        *)
(***************************************************************************)
MaxRepeatBookings == 2

InitRepeat == NewScheduler(SeqsUpTo(Bookings, MaxRepeatBookings) \ {<<>>}, {Undefined})

NextRepeat ==
  \/ NextScheduler
  \/ Scheduler_DoSchedule

SpecRepeat == InitRepeat /\ [][NextRepeat]_vars

(***************************************************************************)
(* DoSchedule on a request that overrides the times of the configuration.  *)
(***************************************************************************)
MaxOverrideBookings == 2

\* before_pickup_time, after_pickup_time, dropoff_unloading_time of a
\* request: absent, or a number
Overrides == {Undefined, NumberTime(0), NumberTime(2000)}

InitOverride == NewScheduler(SeqsUpTo(Bookings, MaxOverrideBookings) \ {<<>>}, Overrides)

SpecOverride == InitOverride /\ [][NextScheduler]_vars

(***************************************************************************)
(* Two DoSchedule at once in one process, each on its own request: one     *)
(* runs, the other is at an await.                                         *)
(***************************************************************************)
MaxConcurrentBookings == 2

\* the first DoSchedule is called with up to MaxConcurrentBookings bookings
\* of the passenger p1 in a wheelchair and any overrides, the second with
\* two bookings one vehicle can take one after the other, without
\* overrides or with overrides of all three times
InitConcurrent ==
  LET FirstRequests ==
        [bookings : SeqsUpTo({b \in Bookings : /\ b.passenger_id = "p1"
                                              /\ b.mobility_assistance = <<"wheelchair">>},
                             MaxConcurrentBookings) \ {<<>>},
         before_pickup_time : Overrides,
         after_pickup_time : Overrides,
         dropoff_unloading_time : Overrides]
      booking(from, to, at) ==
        [passenger_id |-> "", passenger_firstname |-> "Ann",
         passenger_lastname |-> "Lee", pickup_time |-> at,
         pickup_address |-> from, dropoff_address |-> to,
         mobility_assistance |-> <<"cane">>,
         travel_distance |-> Undefined, travel_time |-> Undefined]
      SecondRequests ==
        {[bookings |-> <<booking("a", "b", 0), booking("b", "c", 3)>>,
          before_pickup_time |-> override,
          after_pickup_time |-> override,
          dropoff_unloading_time |-> override] : override \in {Undefined, NumberTime(2000)}}
  IN
  /\ NoTasks
  /\ NoDirections
  /\ now = 0
  /\ ret = NoRet
  /\ called \in {<<first, second>> : first \in FirstRequests, second \in SecondRequests}
  /\ schedRequest = called[1]
  /\ allTrips = <<>>
  /\ priorityTrips = <<<<>>, <<>>, <<>>>>
  /\ queue = <<>>
  /\ plan = <<>>
  /\ runs = <<>>
  /\ schedPc = "start"
  /\ parked = [schedRequest |-> called[2], allTrips |-> <<>>,
               priorityTrips |-> <<<<>>, <<>>, <<>>>>, queue |-> <<>>, plan |-> <<>>,
               schedPc |-> "start"]

NextConcurrent ==
  \/ NextScheduler
  \/ Scheduler_await

SpecConcurrent == InitConcurrent /\ [][NextConcurrent]_vars

(***************************************************************************)
(* The construction of the trip of one booking, for any list of tags of    *)
(* up to MaxTags tags as its mobility_assistance.                          *)
(***************************************************************************)
MaxTags == 3

\* a booking with any list of tags
TaggedBookings ==
  {[ passenger_id |-> "p1", passenger_firstname |-> "Ann",
     passenger_lastname |-> "Lee", pickup_time |-> 0,
     pickup_address |-> "a", dropoff_address |-> "b",
     mobility_assistance |-> tags,
     travel_distance |-> Undefined, travel_time |-> Undefined ] :
     tags \in SeqsUpTo({"STRETCHER", "Wheelchair", "wheelchair", "cane", ""}, MaxTags)}

InitConstruct == NewScheduler({<<b>> : b \in TaggedBookings}, {Undefined})

NextConstruct == Scheduler_getTripsFromBooking

SpecConstruct == InitConstruct /\ [][NextConstruct]_vars

(***************************************************************************)
(* Properties of the task pipeline.                                        *)
(***************************************************************************)
\* the status transitions of one document the task life cycle allows:
\* insert as PENDING, PENDING -> PROCESSING, PROCESSING -> COMPLETED or
\* FAILED (removal by the TTL monitor is no status transition)
StatusStep(before, after) ==
  \/ after = NoDoc
  \/ before = NoDoc /\ after.status = pending
  \/ before # NoDoc /\ after.status = before.status
  \/ before # NoDoc /\ before.status = pending /\ after.status = processing
  \/ before # NoDoc /\ before.status = processing /\ after.status \in {completed, failed}

\* C1: under any interleaving of CreateTask, dispatcher callbacks and worker
\* runs, every step changes the status of every document only along
\* insert-as-PENDING, PENDING -> PROCESSING, PROCESSING -> COMPLETED/FAILED;
\* a COMPLETED or FAILED document never changes status again.
C1_StatusMonotone ==
  [][\A d \in DocIds : StatusStep(store[d], store'[d])]_vars

\* C2: no document is returned by two executions of fetchPendingDocs, so
\* none is handed to the worker pool twice.
C2_ClaimedAtMostOnce ==
  \A d \in DocIds : handed[d] <= 1

\* the synchronous endpoint: the scheduler run directly on the request body,
\* its response sent as JSON
SyncEndpoint(request) ==
  LET rspn == Calculate(request) IN
  IF rspn.ok THEN [status |-> 200, body |-> JSONstringify(rspn.value)]
  ELSE [status |-> 500, body |-> Undefined]

\* the request a stored document carries
RequestOf(doc) == JSONparse(doc.requestBody).value

Finished(k, d) == jobs[k][d] \in {"fulfilled", "rejected"}

\* C3: once a worker has run process on a claimed task whose request the
\* scheduler schedules successfully, GetTask of its taskId has status
\* COMPLETED and a result equal to the synchronous endpoint's response.
C3_CompletedEqualsSync ==
  \A k \in Ticks, d \in DocIds :
    (Finished(k, d) /\ Stored(d) /\ Calculate(RequestOf(store[d])).ok) =>
      LET task == GetTask(store, store[d].taskId) IN
        /\ task.status = completed
        /\ task.result = JSONparse(SyncEndpoint(RequestOf(store[d])).body).value

\* C4: right after CreateTask(request) has returned taskId, GetTask(taskId)
\* is a PENDING task without result and error, and the stored document has
\* requestBody = the serialized request and createdAt = updatedAt.
C4_CreatedIsPending ==
  (ret.op = "CreateTask" /\ ret.ok) =>
    LET doc == findOneByTaskId(store, ret.taskId) IN
      /\ doc # Null
      /\ GetTask(store, ret.taskId) =
           [taskId |-> ret.taskId, status |-> pending,
            result |-> Undefined, error |-> Undefined]
      /\ doc.requestBody = Json(ret.request.p)   \* the JSON text of the request
      /\ doc.createdAt = doc.updatedAt

\* C4 happens: a task was just created while another one is being processed
C4_Witness ==
  /\ ret.op = "CreateTask" /\ ret.ok
  /\ \E k \in Ticks : tick[k].pc = "await"

\* C5: when the scheduler fails inside a worker, the task ends FAILED with
\* the error's message as errorMessage, the run is rejected to the
\* dispatcher, and the failed task is never claimed or run again.
C5_FailedOnceWithMessage ==
  \A k \in Ticks, d \in DocIds :
    (Finished(k, d) /\ Stored(d) /\ ~Calculate(RequestOf(store[d])).ok) =>
      /\ jobs[k][d] = "rejected"
      /\ store[d].status = failed
      /\ store[d].errorMessage = Calculate(RequestOf(store[d])).message
      /\ handed[d] = 1

\* C6: under a fair timer and terminating workers, every task inserted as
\* PENDING with a request the scheduler can schedule is eventually
\* COMPLETED.
C6_EventuallyCompleted ==
  \A d \in DocIds :
    (Stored(d) /\ store[d].status = pending /\ Calculate(RequestOf(store[d])).ok)
      ~> (Stored(d) /\ store[d].status = completed)

\* what C7 says of the steps of one execution of fetchPendingDocs
FetchContract(k) ==
  /\ (tick[k].pc = "find" /\ tick'[k].pc # "find") =>
       /\ Cardinality(tick'[k].ids) <= PROCESSOR_BATCH_SIZE
       /\ tick'[k].ids \subseteq PendingIds(store)
       /\ PendingIds(store) = {} => (tick'[k].ids = {} /\ tick'[k].pc = "return")
  /\ (tick[k].pc = "return" /\ tick'[k].pc # "return") =>
       /\ \A d \in tick[k].ids :
            Stored(d) => (store[d].status = processing /\ store[d].updatedAt.k = "date")
       /\ tick[k].ids = {} => (jobs' = jobs /\ handed' = handed /\ store' = store)

\* C7: fetchPendingDocs returns at most PROCESSOR_BATCH_SIZE ids, each of a
\* document that was PENDING; on return each of them is PROCESSING with a
\* refreshed updatedAt; with nothing PENDING it returns the empty list,
\* updates nothing and no worker is dispatched.
C7_FetchPendingDocs ==
  [][\A k \in Ticks : FetchContract(k)]_vars

\* C8: at most one execution of processPendingTasks is in progress at any
\* time.
C8_TicksDoNotOverlap ==
  Cardinality({k \in Ticks : tick[k].pc # "idle"}) <= 1

\* C9: never more than PROCESSOR_THREAD_NUMBER tasks run in the workers at
\* once, and a callback hands exactly the ids fetchPendingDocs returned to
\* the pool.
C9_PoolBound ==
  /\ Cardinality(Running) <= PROCESSOR_THREAD_NUMBER
  /\ \A k \in Ticks :
       tick[k].pc = "await" => {d \in DocIds : jobs[k][d] # "none"} = tick[k].ids

\* C11: when process(docId) runs and no document has that id, it raises an
\* error without calling JSON.parse on a request body, without running the
\* scheduler, and no document is written.
C11_MissingDocRaises ==
  [][\A k \in Ticks, d \in DocIds :
       (jobs[k][d] = "running" /\ jobs'[k][d] # "running" /\ ~Stored(d)) =>
         LET out == process(store, d, now) IN
           /\ ~out.ok
           /\ jobs'[k][d] = "rejected"
           /\ \A i \in DOMAIN out.calls : out.calls[i] \notin {"JSON.parse", "Calculate"}
           /\ store' = store]_vars

\* C12: when getCollection fails in fetchPendingDocs the error reaches the
\* caller and in that step the callback issued no find and no update, no
\* document changed and nothing was handed to the pool; when CreateTask
\* fails on the store, it rejects, returns no task id and inserts nothing.
C12_StoreFailurePropagates ==
  [][/\ \A k \in Ticks :
          (ret' = Rejected(k, ConnectionFailedMessage) /\ ret' # ret) =>
            /\ tick[k].pc = "idle"
            /\ tick' = tick
            /\ store' = store
            /\ jobs' = jobs
            /\ handed' = handed
     /\ (ret'.op = "CreateTask" /\ ret' # ret /\ ~ret'.ok) =>
            /\ ret'.value = Undefined
            /\ store' = store]_vars

\* C12 happens: a callback was rejected by the store while a task is
\* PENDING and another callback is awaiting its workers
C12_Witness ==
  /\ ret.op = "processPendingTasks"
  /\ ~ret.ok
  /\ PendingIds(store) # {}
  /\ \E k \in Ticks : tick[k].pc = "await"

\* a body is stored when the document has the field and it is not null
Present(v) == v \notin {Undefined, Null}

\* C10: GetTask(taskId) is null when no document has the taskId; else it is
\* {taskId, status, result, error} with result the parsed responseBody
\* exactly when one is stored and error the errorMessage exactly when one is
\* stored, undefined otherwise.
C10_GetTask ==
  ret.op = "GetTask" =>
    LET docs == {d \in DocIds : Stored(d) /\ store[d].taskId = ret.taskId} IN
      /\ docs = {} => ret.value = Null
      /\ \A d \in docs :
           /\ ret.value # Null
           /\ ret.value.taskId = ret.taskId
           /\ ret.value.status = store[d].status
           /\ ret.value.result =
                IF Present(store[d].responseBody)
                THEN Obj(store[d].responseBody.p) ELSE Undefined
           /\ ret.value.error =
                IF Present(store[d].errorMessage)
                THEN store[d].errorMessage ELSE Undefined

\* C10 happens: GetTask returned a task with a parsed result
C10_Witness ==
  /\ ret.op = "GetTask"
  /\ ret.value # Null
  /\ ret.value.result # Undefined
  /\ ret.value.error = Undefined
(***************************************************************************)
(* Properties of the LRU cache.                                            *)
(***************************************************************************)
\* an item that has not reached its expireAt at time t
Live(item, t) == item.expireAt = Null \/ item.expireAt.t > t

\* the value the cache holds for the key at time t, within its TTL
LiveValue(c, key, t) ==
  IF Has(c.cache, key) /\ Live(c.cache[IndexOf(c.cache, key)], t)
  THEN c.cache[IndexOf(c.cache, key)].value
  ELSE Undefined

\* C13: put(k, v) leaves v as the value of k while the TTL has not elapsed;
\* get(k) returns the value the cache holds for k; no step but a put of k
\* changes the value held for k (it can only be lost: eviction, expiry); a
\* put of a key that is present leaves the number of entries as it was.
C13_PutThenGet ==
  [][/\ (ret'.op = "put" /\ (cache.TTL = Null \/ cache.TTL.t > 0)) =>
          LiveValue(cache', ret'.key, now') = ret'.value
     /\ (ret'.op = "put" /\ Has(cache.cache, ret'.key)) =>
          Len(cache'.cache) = Len(cache.cache)
     /\ ret'.op = "get" => ret'.value = LiveValue(cache, ret'.key, now)
     /\ \A k \in CacheKeys :
          ~(ret'.op = "put" /\ ret'.key = k) =>
            LiveValue(cache', k, now') \in {LiveValue(cache, k, now), Undefined}]_vars

\* C13 happens: get returned the value of a key that was put earlier, in a
\* full cache, after time has passed
C13_Witness ==
  /\ ret.op = "get"
  /\ ret.value # Undefined
  /\ now > 0
  /\ Len(cache.cache) = MaxCapacity

\* C14: when puts of distinct keys with no reads have filled the cache and
\* no entry is expired, the put of a further new key removes the
\* first-inserted key and keeps every other entry as it was.
C14_EvictsFirstInserted ==
  [][(/\ ret'.op = "put"
      /\ order.fresh
      /\ Len(order.keys) = cache.capacity
      /\ \A i \in DOMAIN order.keys : order.keys[i] # ret'.key
      /\ \A i \in DOMAIN cache.cache : Live(cache.cache[i], now)) =>
        /\ Len(cache'.cache) = cache.capacity
        /\ ~Has(cache'.cache, order.keys[1])
        /\ \A i \in 2..Len(order.keys) :
             /\ cache'.cache[i - 1] = cache.cache[i]
             /\ cache.cache[i].key = order.keys[i]
        /\ cache'.cache[cache.capacity].key = ret'.key]_vars

\* C14 happens: a further new key was just put into a cache of the largest
\* capacity that distinct puts had filled, and the first key is gone
C14_Witness ==
  /\ order.overflowed
  /\ ret.op = "put"
  /\ cache.capacity = MaxCapacity
  /\ Len(cache.cache) = MaxCapacity
  /\ \A i \in DOMAIN cache.cache : Live(cache.cache[i], now)

\* C15: for an entry with expireAt <= now, get returns undefined and
\* removes the entry, entries() does not list it, and cleanExpired()
\* removes it.
C15_ExpiredIsAbsent ==
  [][\A i \in DOMAIN cache.cache :
       (cache.cache[i].expireAt # Null /\ cache.cache[i].expireAt.t <= now) =>
         /\ (ret'.op = "get" /\ ret'.key = cache.cache[i].key) =>
              (ret'.value = Undefined /\ ~Has(cache'.cache, cache.cache[i].key))
         /\ ret'.op = "entries" =>
              \A j \in DOMAIN ret'.value : ret'.value[j][1] # cache.cache[i].key
         /\ ret'.op = "cleanExpired" => ~Has(cache'.cache, cache.cache[i].key)]_vars

\* C15 happens: entries() has just left out an expired entry that is still
\* in the map
C15_Witness ==
  /\ ret.op = "entries"
  /\ Len(ret.value) < Len(cache.cache)

\* C16: in a cache created with TTL = 0, get(k) returns the value put for k
\* whenever k is still in the cache, however much time has passed.
C16_ZeroTTLNeverExpires ==
  [][(/\ cache.TTL = NumberTime(0)
      /\ ret'.op = "get"
      /\ Has(cache.cache, ret'.key)) =>
        ret'.value = cache.cache[IndexOf(cache.cache, ret'.key)].value]_vars

(***************************************************************************)
(* Properties of the directions service.                                   *)
(***************************************************************************)
\* C17: with ENABLE_CACHE = false there is no cache, no call reads or
\* writes a cache, and every call that finished went to the routing
\* provider.
C17_DisabledCache ==
  ~config.ENABLE_CACHE =>
    /\ cache = Null
    /\ mongo = {}
    /\ \A c \in Callers :
         /\ calls[c].cacheOps = <<>>
         /\ calls[c].pc \in {"idle", "fetch", "done"}
         /\ calls[c].pc = "done" => calls[c].query # NoQuery

\* C17 happens: with the cache disabled, two lookups of the same addresses
\* have both been answered by the provider
C17_Witness ==
  /\ ~config.ENABLE_CACHE
  /\ \A c \in Callers :
       /\ calls[c].pc = "done"
       /\ calls[c].out.ok
       /\ calls[c].query # NoQuery
       /\ calls[c].to = "b"

\* C18: a call in which cache.get or cache.put raised still returns what
\* the provider answers to its query.
C18_CacheFailureDegrades ==
  \A c \in Callers :
    (calls[c].pc = "done" /\ calls[c].cacheFailed) =>
      /\ calls[c].out.ok
      /\ calls[c].query # NoQuery
      /\ calls[c].out.value = Provider(calls[c].query)

\* the value the cache holds under the key: within its TTL in the LRU
\* cache, stored in the collection of the persistent cache
Held(key) ==
  IF ~cacheCreated \/ cache = Null THEN Undefined
  ELSE IF cache.type = "memory" THEN LiveValue(cache, key, now)
  ELSE IF \E doc \in mongo : doc.key = key
       THEN (CHOOSE doc \in mongo : doc.key = key).value
       ELSE Undefined

\* the step of call c in which its cache.get is answered
ReadsCache(c) ==
  \/ /\ calls[c].pc = "idle"
     /\ calls'[c].pc # "idle"
     /\ cache' # Null
     /\ cache'.type = "memory"
  \/ /\ calls[c].pc = "get"
     /\ calls'[c].pc # "get"
     /\ ~calls'[c].cacheFailed

\* C19: when the cache holds a value under from|to, a call returns it and
\* does not query the provider, whatever its departure time; when it does
\* not, the call queries the provider, and a route the provider returns is
\* put into the cache under from|to.
C19_ReadThrough ==
  [][\A c \in Callers :
       LET key == CacheKey(calls'[c].from, calls'[c].to) IN
       /\ (ReadsCache(c) /\ Held(key) # Undefined) =>
            /\ calls'[c].pc = "done"
            /\ calls'[c].out = Returned(Held(key))
            /\ calls'[c].query = NoQuery
       /\ (ReadsCache(c) /\ Held(key) = Undefined) =>
            /\ calls'[c].pc = "fetch"
            /\ calls'[c].query # NoQuery
       /\ (/\ calls[c].pc = "fetch"
           /\ calls'[c].pc # "fetch"
           /\ calls'[c].out.ok
           /\ calls'[c].out.value # Null
           /\ cache # Null) =>
            IF cache.type = "memory"
            THEN /\ Has(cache'.cache, key)
                 /\ cache'.cache[IndexOf(cache'.cache, key)].value = calls'[c].out.value
            ELSE calls'[c].pc = "put"
       /\ (calls[c].pc = "put" /\ calls'[c].pc # "put" /\ calls'[c].out.ok) =>
            \E doc \in mongo' : doc.key = key /\ doc.value = calls'[c].out.value]_vars

\* C19 happens: one call queried the provider, and another call with the
\* same addresses and another departure time was answered from the cache
\* with the same value
C19_Witness ==
  \E c1, c2 \in Callers :
    /\ calls[c1].pc = "done" /\ calls[c2].pc = "done"
    /\ calls[c1].from = calls[c2].from /\ calls[c1].to = calls[c2].to
    /\ calls[c1].departureTime # calls[c2].departureTime
    /\ calls[c1].query # NoQuery /\ calls[c1].out.ok /\ calls[c1].out.value # Null
    /\ calls[c2].query = NoQuery
    /\ calls[c2].out = calls[c1].out

\* C20: the query a call sends to the provider carries departure_time, the
\* departure in seconds rounded up, exactly when departureTime is later
\* than the time the query is built; else it has none.
C20_DepartureTime ==
  [][\A c \in Callers :
       (calls[c].query = NoQuery /\ calls'[c].query # NoQuery) =>
         /\ calls'[c].query.departure_time # Undefined <=> calls'[c].departureTime > now
         /\ calls'[c].departureTime > now =>
              calls'[c].query.departure_time =
                NumberTime(CeilSeconds(calls'[c].departureTime))]_vars

\* C20 happens: a query was built at the very time of the departure, and
\* it has no departure_time
C20_Witness ==
  \E c \in Callers :
    /\ calls[c].pc = "fetch"
    /\ calls[c].departureTime = now
    /\ calls[c].query.departure_time = Undefined

\* the step in which the provider answers call c with a failure or without
\* a route
FetchesNothing(c) ==
  /\ calls[c].pc = "fetch"
  /\ calls'[c].pc # "fetch"
  /\ \/ ~calls'[c].out.ok
     \/ calls'[c].out.value = Null

Succeeded == schedPc = "done" /\ runs # <<>> /\ runs[Len(runs)].response.ok

\* the vehicles of the response of the last run
Output == runs[Len(runs)].response.value

\* where the booking at place i of the request is in the response
TripsOf(i) ==
  {vk \in (DOMAIN Output) \X (1..Len(schedRequest.bookings)) :
     /\ vk[2] \in DOMAIN Output[vk[1]].trips
     /\ Output[vk[1]].trips[vk[2]].bookings = <<i>>}

\* the consecutive trips (prev, next) of the vehicles of the plan
Consecutive ==
  UNION {{<<allTrips[plan[v].trips[k]], allTrips[plan[v].trips[k + 1]]>> :
            k \in 1..(Len(plan[v].trips) - 1)} : v \in DOMAIN plan}

\* C22: when a request was scheduled, every booking of it is in exactly one
\* trip of exactly one vehicle of the response, and its travel_distance and
\* travel_time are those of the directions for it, which its trip has too.
C22_EveryBookingOnce ==
  Succeeded =>
    \A i \in DOMAIN schedRequest.bookings :
      LET booking == schedRequest.bookings[i]
          result == Direction(booking.pickup_address, booking.dropoff_address)
      IN
      /\ Cardinality(TripsOf(i)) = 1
      /\ booking.travel_distance = NumberTime(result.distanceInMeter)
      /\ booking.travel_time = NumberTime(result.durationInSec)
      /\ \E t \in DOMAIN allTrips :
           /\ allTrips[t].booking = i
           /\ allTrips[t].distanceInMeter = result.distanceInMeter
           /\ allTrips[t].durationInSec = result.durationInSec

\* C22 happens: a request of three bookings was scheduled on two vehicles
C22_Witness ==
  /\ Succeeded
  /\ Len(schedRequest.bookings) = 3
  /\ Len(Output) = 2

\* C23: of consecutive trips (prev, next) of a vehicle, prev is finished by
\* the latest pickup time of next, and when next is picked up elsewhere
\* than prev is dropped there is a route, and the vehicle is there by the
\* latest pickup time of next.
C23_ConsecutiveTripsFit ==
  \A pair \in Consecutive :
    LET prev == pair[1]
        next == pair[2]
        direction == Direction(prev.dropOffAddress, next.pickupAddress)
    IN
    /\ finishTime(prev) <= latestPickupTime(next)
    /\ prev.dropOffAddress # next.pickupAddress =>
         /\ direction # Null
         /\ finishTime(prev) + direction.durationInSec <= latestPickupTime(next)

\* C23 happens: in a final plan a vehicle drives from the drop-off of a
\* trip to the pickup of its next trip
C23_Witness ==
  /\ Succeeded
  /\ \E pair \in Consecutive : pair[1].dropOffAddress # pair[2].pickupAddress

\* C24 as stated: in the final plan the trips of every vehicle are in
\* non-decreasing order of pickupTime.
C24_PickupTimeOrder ==
  Succeeded => \A pair \in Consecutive : pair[1].pickupTime <= pair[2].pickupTime

\* C24, amended: of consecutive trips (prev, next) of a vehicle of the final
\* plan, next is not booked earlier than prev unless next is a last leg,
\* and then by no more than the delay allowed after its pickup time; the
\* adjusted pickup times are in non-decreasing order.
C24_PickupTimeOrderButLastLegs ==
  Succeeded =>
    \A pair \in Consecutive :
      /\ ~pair[2].isLast => pair[1].pickupTime <= pair[2].pickupTime
      /\ pair[2].isLast =>
           pair[1].pickupTime <= pair[2].pickupTime + InSec(DEFAULT_AFTER_PICKUP_TIME)
      /\ pair[1].adjustedPickupTime.t <= pair[2].adjustedPickupTime.t

\* C24 happens: in a final plan a last leg of the second queue follows,
\* on a vehicle of the first queue, a trip booked later than it
C24_Witness ==
  /\ Succeeded
  /\ \E pair \in Consecutive :
       /\ pair[2].isLast
       /\ pair[2].pickupTime < pair[1].pickupTime
       /\ priorityMa(pair[1].assistance) < priorityMa(pair[2].assistance)

\* the places in allTrips of the trips of the passenger of the trip at t
TripsOfPassenger(t) ==
  {u \in DOMAIN allTrips : allTrips[u].passenger = allTrips[t].passenger}

\* C25: once markLastLeg has run, of the trips of a passenger with two or
\* more trips exactly one is marked isLast and none of them has a later
\* pickupTime; the trip of a passenger with one trip is not marked; and the
\* latest pickup time of a trip is its pickupTime, later by afterPickup
\* exactly for the marked trips.
C25_OneLastLeg ==
  schedPc \in {"marked", "scheduling"} \/ Succeeded =>
    \A t \in DOMAIN allTrips :
      /\ IF Cardinality(TripsOfPassenger(t)) >= 2
         THEN /\ Cardinality({u \in TripsOfPassenger(t) : allTrips[u].isLast}) = 1
              /\ allTrips[t].isLast =>
                   \A u \in TripsOfPassenger(t) :
                     allTrips[u].pickupTime <= allTrips[t].pickupTime
         ELSE ~allTrips[t].isLast
      /\ latestPickupTime(allTrips[t]) =
           IF allTrips[t].isLast
           THEN allTrips[t].pickupTime + InSec(DEFAULT_AFTER_PICKUP_TIME)
           ELSE allTrips[t].pickupTime
      /\ latestPickupTime(allTrips[t]) > allTrips[t].pickupTime <=> allTrips[t].isLast

\* C25 happens: markLastLeg has marked the later of the two trips of a
\* passenger and not the trip of another passenger
C25_Witness ==
  /\ schedPc = "marked"
  /\ \E t, u, w \in DOMAIN allTrips :
       /\ allTrips[t].passenger = allTrips[u].passenger
       /\ allTrips[u].pickupTime < allTrips[t].pickupTime
       /\ allTrips[t].isLast
       /\ allTrips[w].passenger # allTrips[t].passenger
       /\ ~allTrips[w].isLast

\* the queue of a trip, from the tags of its booking
QueueOf(trip) ==
  LET tags == schedRequest.bookings[trip.booking].mobility_assistance IN
  IF \E k \in DOMAIN tags : tags[k] \in {"STRETCHER", "Stretcher", "stretcher"} THEN 0
  ELSE IF \E k \in DOMAIN tags : tags[k] \in {"WHEELCHAIR", "Wheelchair", "wheelchair"}
  THEN 1
  ELSE 2

\* trip p is assigned before trip q: its queue is earlier, or in the same
\* queue it is booked earlier, or at the same time and earlier in the
\* request
AssignedBefore(p, q) ==
  \/ QueueOf(p) < QueueOf(q)
  \/ QueueOf(p) = QueueOf(q) /\ p.pickupTime < q.pickupTime
  \/ QueueOf(p) = QueueOf(q) /\ p.pickupTime = q.pickupTime /\ p.booking < q.booking

\* C26: when a trip is assigned to a vehicle, every trip not yet assigned
\* comes after it: in a later queue (stretcher, then wheelchair without
\* stretcher, then the others), or in the same queue with a later
\* pickupTime, or with the same pickupTime and later in the request.
C26_AssignedInQueueOrder ==
  [][\A p \in DOMAIN allTrips :
       (/\ schedPc = "scheduling"
        /\ allTrips[p].adjustedPickupTime = Null
        /\ allTrips'[p].adjustedPickupTime # Null) =>
         /\ \E v \in DOMAIN plan' : plan'[v].trips[Len(plan'[v].trips)] = p
         /\ \A q \in DOMAIN allTrips' :
              (q # p /\ allTrips'[q].adjustedPickupTime = Null) =>
                AssignedBefore(allTrips'[p], allTrips'[q])]_vars

\* C26 happens: a vehicle opened for a trip of the first queue has taken a
\* trip of a later queue, and two trips of one queue booked for the same
\* time are assigned
C26_Witness ==
  /\ Succeeded
  /\ \E pair \in Consecutive : QueueOf(pair[1]) = 0 /\ QueueOf(pair[2]) > 0
  /\ \E t, u \in DOMAIN allTrips :
       /\ t # u
       /\ QueueOf(allTrips[t]) = QueueOf(allTrips[u])
       /\ allTrips[t].pickupTime = allTrips[u].pickupTime

\* when a vehicle whose last trip is prev is at the pickup of next
ArrivalAfter(prev, next) ==
  IF prev.dropOffAddress = next.pickupAddress THEN finishTime(prev)
  ELSE finishTime(prev) + Direction(prev.dropOffAddress, next.pickupAddress).durationInSec

\* a vehicle whose last trip is prev is at the pickup of next in time
InTimeAfter(prev, next) ==
  /\ prev.dropOffAddress # next.pickupAddress =>
       Direction(prev.dropOffAddress, next.pickupAddress) # Null
  /\ ArrivalAfter(prev, next) <=
       next.pickupTime + (IF next.isLast THEN InSec(DEFAULT_AFTER_PICKUP_TIME) ELSE 0)

\* the step that assigns the trip at place p
Assigns(p) ==
  /\ schedPc = "scheduling"
  /\ p \in DOMAIN allTrips
  /\ allTrips[p].adjustedPickupTime = Null
  /\ allTrips'[p].adjustedPickupTime # Null

\* the last trip of vehicle v before the step
LastOf(v) == allTrips[plan[v].trips[Len(plan[v].trips)]]

\* C28: the adjusted pickup time of a trip that opens a vehicle is its
\* pickupTime, and that of a trip appended to a vehicle is the later of its
\* pickupTime and the arrival of the vehicle after its previous trip; so
\* it is never before the pickupTime, and it is set once.
C28_AdjustedPickupTime ==
  [][\A p \in DOMAIN allTrips' :
       /\ Assigns(p) =>
            LET trip == allTrips[p] IN
            /\ Len(plan') > Len(plan) =>
                 allTrips'[p].adjustedPickupTime = DateTime(trip.pickupTime)
            /\ \A v \in DOMAIN plan :
                 plan'[v] # plan[v] =>
                   allTrips'[p].adjustedPickupTime =
                     DateTime(IF ArrivalAfter(LastOf(v), trip) > trip.pickupTime
                              THEN ArrivalAfter(LastOf(v), trip)
                              ELSE trip.pickupTime)
       /\ allTrips'[p].adjustedPickupTime # Null =>
            allTrips'[p].adjustedPickupTime.t >= allTrips'[p].pickupTime
       /\ (schedPc = "scheduling" /\ allTrips[p].adjustedPickupTime # Null) =>
            allTrips'[p].adjustedPickupTime = allTrips[p].adjustedPickupTime]_vars

\* C28 happens: in a final plan a vehicle waits for one of its trips, which
\* is picked up at its pickupTime, and is late for another, which is
\* picked up when it arrives
C28_Witness ==
  /\ Succeeded
  /\ \E pair \in Consecutive :
       /\ ArrivalAfter(pair[1], pair[2]) < pair[2].pickupTime
       /\ pair[2].adjustedPickupTime = DateTime(pair[2].pickupTime)
  /\ \E pair \in Consecutive :
       /\ ArrivalAfter(pair[1], pair[2]) > pair[2].pickupTime
       /\ pair[2].adjustedPickupTime = DateTime(ArrivalAfter(pair[1], pair[2]))

\* C30: a trip opens a vehicle exactly when no vehicle of the plan is in
\* time for it after its last trip; the vehicle is put at the end of the
\* plan, and else the trip is appended to one vehicle; the vehicle at
\* place i of the plan (from 1) has idx i, every vehicle has a trip, and
\* there are no more vehicles than assigned trips.
C30_NewVehicleWhenNoneFits ==
  [][/\ \A p \in DOMAIN allTrips' :
          Assigns(p) =>
            /\ Len(plan') = Len(plan) + 1 <=>
                 \A v \in DOMAIN plan : ~InTimeAfter(LastOf(v), allTrips[p])
            /\ IF Len(plan') = Len(plan) + 1
               THEN /\ SubSeq(plan', 1, Len(plan)) = plan
                    /\ plan'[Len(plan')].trips = <<p>>
               ELSE /\ Len(plan') = Len(plan)
                    /\ \E v \in DOMAIN plan :
                         /\ InTimeAfter(LastOf(v), allTrips[p])
                         /\ plan' = [plan EXCEPT ![v].trips = Append(@, p)]
     /\ \A v \in DOMAIN plan' : plan'[v].idx = v /\ Len(plan'[v].trips) >= 1
     /\ Len(plan') <=
          Cardinality({p \in DOMAIN allTrips' : allTrips'[p].adjustedPickupTime # Null})
    ]_vars

\* C30 happens: with a vehicle in the plan a second one was opened for a
\* trip, and a trip was appended to a vehicle
C30_Witness ==
  /\ Succeeded
  /\ Len(plan) = 2
  /\ \E v \in DOMAIN plan : Len(plan[v].trips) = 2

\* the assistance of a list of tags: the bits of the tags in it, whatever
\* their case, a tag that is neither for Ambulatory, and Ambulatory when
\* there is no tag
AssistanceOfTags(tags) ==
  LET upper == {ToUpperCase(tags[k]) : k \in DOMAIN tags} IN
  (IF "STRETCHER" \in upper THEN Stretcher ELSE 0)
    + (IF "WHEELCHAIR" \in upper THEN Wheelchair ELSE 0)
    + (IF upper \ {"STRETCHER", "WHEELCHAIR"} # {} \/ upper = {} THEN Ambulatory ELSE 0)

\* C27: whatever the list of tags of a booking, empty or of unknown tags,
\* the construction of its trip succeeds, and the assistance of the trip is
\* positive: the | of its tags, Ambulatory for an unknown tag and for none.
C27_AssistancePositive ==
  schedPc # "start" =>
    /\ schedPc = "trips"
    /\ \A t \in DOMAIN allTrips :
         /\ allTrips[t].assistance > 0
         /\ allTrips[t].assistance =
              AssistanceOfTags(schedRequest.bookings[allTrips[t].booking].mobility_assistance)

KeysOf(c) == [i \in DOMAIN c.cache |-> c.cache[i].key]

\* a sequence of keys without a key
WithoutKey(keys, key) == SelectSeq(keys, LAMBDA k : k # key)

\* an item of the Map is expired now
ExpiredNow(item) == item.expireAt # Null /\ item.expireAt.t <= now

\* the step is a put of a new key into a full cache
PutsNewIntoFull ==
  /\ ret'.op = "put"
  /\ cache # Null
  /\ \A i \in DOMAIN cache.cache : cache.cache[i].key # ret'.key
  /\ Len(cache.cache) >= cache.capacity

\* C35: a get that returns a value makes its key the last of the Map, the
\* other keys in the order they were in; a put of a new key into a full
\* cache with nothing expired evicts the first key of the Map and no
\* other, so not the key that the get of the step before has returned.
C35_GetMakesMostRecent ==
  [][/\ (ret'.op = "get" /\ ret'.value # Undefined) =>
          /\ KeysOf(cache') = Append(WithoutKey(KeysOf(cache), ret'.key), ret'.key)
          /\ cache'.cache[Len(cache'.cache)].value = ret'.value
     /\ (PutsNewIntoFull /\ \A i \in DOMAIN cache.cache : ~ExpiredNow(cache.cache[i])) =>
          /\ KeysOf(cache') = Append(Tail(KeysOf(cache)), ret'.key)
          /\ (ret.op = "get" /\ ret.value # Undefined /\ cache.capacity > 1) =>
               \E i \in DOMAIN cache'.cache : cache'.cache[i].key = ret.key
    ]_vars

\* C35 happens: in a full cache with nothing expired a get has just moved
\* the key that was put first behind the key that was put after it
C35_Witness ==
  /\ ret.op = "get"
  /\ ret.value # Undefined
  /\ Len(cache.cache) = 2
  /\ cache.capacity = 2
  /\ cache.cache[2].key = ret.key
  /\ cache.cache[1].expireAt # Null
  /\ cache.cache[2].expireAt.t < cache.cache[1].expireAt.t
  /\ \A i \in DOMAIN cache.cache : ~ExpiredNow(cache.cache[i])

\* C36: a put of a new key into a full cache removes one item and no
\* more: the first expired item in the order of the Map when there is one,
\* the items before it staying, else the first item; a put of a key of
\* the Map removes no other key.
C36_PutEvictsOne ==
  [][/\ PutsNewIntoFull =>
          LET items == cache.cache
              expired == {i \in DOMAIN items : ExpiredNow(items[i])}
              place == IF expired = {} THEN 1
                       ELSE CHOOSE i \in expired : \A j \in expired : i <= j
          IN
          /\ Len(cache'.cache) = Len(items)
          /\ \A i \in 1..(place - 1) : cache'.cache[i] = items[i]
          /\ \A i \in (place + 1)..Len(items) : cache'.cache[i - 1] = items[i]
          /\ cache'.cache[Len(items)].key = ret'.key
     /\ (/\ ret'.op = "put"
         /\ cache # Null
         /\ \E i \in DOMAIN cache.cache : cache.cache[i].key = ret'.key) =>
          /\ Len(cache'.cache) = Len(cache.cache)
          /\ KeysOf(cache') = Append(WithoutKey(KeysOf(cache), ret'.key), ret'.key)
    ]_vars

\* C36 happens: a put has evicted an expired item that was not the first
\* of the Map, and the first, not expired, is still there
C36_Witness ==
  /\ ret.op = "put"
  /\ "evicted" \in DOMAIN order
  /\ order.evicted > 1
  /\ order.expired
  /\ cache.cache[1].key # ret.key

\* C37: the Map never holds more items than the capacity, expired ones
\* counted, and no key twice.
C37_SizeWithinCapacity ==
  cache # Null /\ cache.type = "memory" =>
    /\ Len(cache.cache) <= cache.capacity
    /\ \A i, j \in DOMAIN cache.cache :
         cache.cache[i].key = cache.cache[j].key => i = j

\* C37 happens: after a put the cache is full, an expired item among its
\* items
C37_Witness ==
  /\ ret.op = "put"
  /\ Len(cache.cache) = cache.capacity
  /\ cache.capacity = 2
  /\ \E i \in DOMAIN cache.cache : ExpiredNow(cache.cache[i])

(***************************************************************************)
(* Further properties of the task pipeline.                                *)
(***************************************************************************)
\* C39: in every state a COMPLETED task has a responseBody and no
\* errorMessage, a FAILED task an errorMessage and no responseBody, and a
\* PENDING or PROCESSING task neither.
C39_BodiesAgreeWithStatus ==
  \A d \in DocIds :
    Stored(d) =>
      /\ store[d].status = completed =>
           store[d].responseBody # Undefined /\ store[d].errorMessage = Undefined
      /\ store[d].status = failed =>
           store[d].errorMessage # Undefined /\ store[d].responseBody = Undefined
      /\ store[d].status \in {pending, processing} =>
           store[d].responseBody = Undefined /\ store[d].errorMessage = Undefined

\* C40 as stated: a task that was claimed is in the store in every later
\* state.
C40_ClaimedStaysFound ==
  [][\A d \in DocIds :
       (Stored(d) /\ store[d].status # pending) =>
         findOneByTaskId(store', store[d].taskId) # Null]_vars

\* C40, amended: no step changes the taskId, the requestBody or the
\* createdAt of a task, so the task is found by its taskId in every later
\* state up to its removal by the TTL monitor, which is the only step
\* that removes a task, and only one whose updatedAt is a date older than
\* the TTL.
C40_IdentityKept ==
  [][\A d \in DocIds :
       Stored(d) =>
         IF store'[d] = NoDoc
         THEN store[d].updatedAt.k = "date" /\ store[d].updatedAt.t + TASK_TTL <= now
         ELSE /\ store'[d].taskId = store[d].taskId
              /\ store'[d].requestBody = store[d].requestBody
              /\ store'[d].createdAt = store[d].createdAt
              /\ findOneByTaskId(store', store[d].taskId) # Null
              /\ findOneByTaskId(store', store[d].taskId).taskId = store[d].taskId
    ]_vars

\* C40 happens: a task was claimed and finished as failed, and is in the
\* store with the createdAt of its insertion
C40_Witness ==
  \E d \in DocIds :
    /\ Stored(d)
    /\ store[d].status = failed
    /\ store[d].updatedAt.k = "number"
    /\ store[d].createdAt.k = "number"
    /\ handed[d] >= 1

\* C38: in the final plan, of consecutive trips (prev, next) of a vehicle,
\* prev is dropped and unloaded by the earliest arrival time of next, which
\* is not after the adjusted pickup time of next, which is not after the
\* latest pickup time of next.
C38_ConsecutiveTimes ==
  Succeeded =>
    \A pair \in Consecutive :
      LET prev == pair[1]
          next == pair[2]
      IN
      /\ prev.adjustedPickupTime # Null
      /\ next.adjustedPickupTime # Null
      /\ next.earliestArrivalTime # Null
      /\ prev.adjustedPickupTime.t + prev.durationInSec
            + InSec(DEFAULT_DROPOFF_UNLOADING_TIME) <= next.earliestArrivalTime.t
      /\ next.earliestArrivalTime.t <= next.adjustedPickupTime.t
      /\ next.adjustedPickupTime.t <=
           next.pickupTime + (IF next.isLast THEN InSec(DEFAULT_AFTER_PICKUP_TIME) ELSE 0)

\* C38 happens: in a final plan a vehicle drives to a last leg after
\* unloading and is there after its pickup time and before its latest
\* pickup time
C38_Witness ==
  /\ Succeeded
  /\ \E pair \in Consecutive :
       /\ pair[1].adjustedPickupTime.t + pair[1].durationInSec
            + InSec(DEFAULT_DROPOFF_UNLOADING_TIME) < pair[2].earliestArrivalTime.t
       /\ pair[2].isLast
       /\ pair[2].pickupTime < pair[2].adjustedPickupTime.t
       /\ pair[2].adjustedPickupTime.t <
            pair[2].pickupTime + InSec(DEFAULT_AFTER_PICKUP_TIME)

\* C33: when there is no route for a booking, getTripsFromBooking makes
\* DoSchedule fail with "No routes found" and there is no plan, and nothing
\* else makes it fail; when there is no route from the last drop-off of a
\* vehicle to the pickup of a trip, the trip is not given to that vehicle,
\* the other vehicles are still tried, and DoSchedule goes on.
C33_NoRouteHandling ==
  [][/\ (schedPc = "start" /\ schedPc' # "start") =>
          IF \E i \in DOMAIN schedRequest.bookings :
               Direction(schedRequest.bookings[i].pickup_address,
                         schedRequest.bookings[i].dropoff_address) = Null
          THEN /\ schedPc' = "done"
               /\ runs' = Append(runs, runs'[Len(runs')])
               /\ ~runs'[Len(runs')].response.ok
               /\ runs'[Len(runs')].response.message =
                    Str("No routes found for the given query")
               /\ plan' = <<>>
               /\ allTrips' = <<>>
          ELSE schedPc' = "trips" /\ runs' = runs
     /\ (runs' # runs /\ ~runs'[Len(runs')].response.ok) => schedPc = "start"
     /\ \A p \in DOMAIN allTrips' :
          Assigns(p) =>
            /\ schedPc' = "scheduling"
            /\ runs' = runs
            /\ \A v \in DOMAIN plan :
                 (/\ LastOf(v).dropOffAddress # allTrips[p].pickupAddress
                  /\ Direction(LastOf(v).dropOffAddress, allTrips[p].pickupAddress) = Null)
                   => plan'[v] = plan[v]
            /\ (\E w \in DOMAIN plan : InTimeAfter(LastOf(w), allTrips[p])) =>
                 \E w \in DOMAIN plan :
                   InTimeAfter(LastOf(w), allTrips[p]) /\ plan'[w] # plan[w]
    ]_vars

\* C33 happens: in a final plan a vehicle was free in time for a trip picked
\* up where there is no route to from its drop-off, and the trip is on a
\* later vehicle
C33_Witness ==
  /\ Succeeded
  /\ \E v, w \in DOMAIN plan :
       LET prev == allTrips[plan[v].trips[1]]
           next == allTrips[plan[w].trips[1]]
       IN
       /\ v < w
       /\ Len(plan[v].trips) = 1
       /\ prev.dropOffAddress # next.pickupAddress
       /\ Direction(prev.dropOffAddress, next.pickupAddress) = Null
       /\ prev.pickupTime + prev.durationInSec
            + InSec(DEFAULT_DROPOFF_UNLOADING_TIME) <= next.pickupTime

\* the arrival wanted for a trip: its pickupTime for a last leg, and the
\* time before pickup earlier for another trip
WantedArrival(trip) ==
  IF trip.isLast THEN trip.pickupTime
  ELSE trip.pickupTime - InSec(DEFAULT_BEFORE_PICKUP_TIME)

\* C31 as stated: the vehicle a trip is appended to is one of the vehicles
\* in time for it; when some of these arrive by the wanted arrival it is
\* one of them and none of them arrives later than it, and else none of the
\* vehicles in time arrives earlier than it.
C31_BestVehicle ==
  [][\A p \in DOMAIN allTrips' :
       Assigns(p) =>
         LET trip == allTrips[p]
             fit == {v \in DOMAIN plan : InTimeAfter(LastOf(v), trip)}
             inWindow == {v \in fit : ArrivalAfter(LastOf(v), trip) <= WantedArrival(trip)}
         IN
         \A v \in DOMAIN plan :
           plan'[v] # plan[v] =>
             /\ v \in fit
             /\ IF inWindow # {}
                THEN /\ v \in inWindow
                     /\ \A w \in inWindow :
                          ArrivalAfter(LastOf(w), trip) <= ArrivalAfter(LastOf(v), trip)
                ELSE \A w \in fit :
                       ArrivalAfter(LastOf(v), trip) <= ArrivalAfter(LastOf(w), trip)
    ]_vars

\* an override of a request as a number of seconds, and the time of the
\* configuration when there is none
SecondsOf(override, default) ==
  IF override \in {Null, Undefined} THEN InSec(default) ELSE override.t

\* C32 as stated: the overrides of the request are numbers of seconds: a
\* trip is finished dropoff_unloading_time seconds after its drop-off, the
\* latest pickup of a last leg is after_pickup_time seconds after its
\* pickupTime, and the earliest arrival of a first trip of a vehicle that
\* is not a last leg is before_pickup_time seconds before its pickupTime.
C32_OverridesInSeconds ==
  /\ \A t \in DOMAIN allTrips :
       /\ finishTime(allTrips[t]) =
            dropoffTime(allTrips[t])
              + SecondsOf(schedRequest.dropoff_unloading_time, DEFAULT_DROPOFF_UNLOADING_TIME)
       /\ allTrips[t].isLast =>
            latestPickupTime(allTrips[t]) =
              allTrips[t].pickupTime
                + SecondsOf(schedRequest.after_pickup_time, DEFAULT_AFTER_PICKUP_TIME)
  /\ \A v \in DOMAIN plan :
       LET first == allTrips[plan[v].trips[1]] IN
       ~first.isLast =>
         first.earliestArrivalTime =
           DateTime(first.pickupTime
                      - SecondsOf(schedRequest.before_pickup_time, DEFAULT_BEFORE_PICKUP_TIME))
  /\ \A pair \in Consecutive :
       pair[1].dropOffAddress = pair[2].pickupAddress =>
         pair[2].earliestArrivalTime =
           DateTime(dropoffTime(pair[1])
                      + SecondsOf(schedRequest.dropoff_unloading_time,
                                  DEFAULT_DROPOFF_UNLOADING_TIME))

\* DoSchedule on a request with nothing else going on: its outcome, plan
\* and trips
Alone(request) ==
  LET this == context(request)
      bookings == request.bookings
      failedAt == FirstFailed(this, bookings)
      trips == markLastLeg([i \in DOMAIN bookings |->
                              TripInfo_create(this, bookings[i], i).trip])
      queues == getPriorityTrips(trips)
      RECURSIVE Schedule(_, _)
      Schedule(sofar, rest) ==
        IF rest = <<>> THEN sofar
        ELSE Schedule(scheduleTrip(sofar.trips, sofar.plan, Head(rest)), Tail(rest))
      final == Schedule([plan |-> <<>>, trips |-> trips],
                        queues[1] \o queues[2] \o queues[3])
  IN
  IF failedAt # 0
  THEN [response |-> Thrown(TripInfo_create(this, bookings[failedAt], failedAt).message),
        plan |-> <<>>, allTrips |-> <<>>]
  ELSE [response |-> Returned(getResponse(final.trips, final.plan)),
        plan |-> final.plan, allTrips |-> final.trips]

====
